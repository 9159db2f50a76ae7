------------------------ MODULE DeviceBuilderProofs ------------------------
(***************************************************************************)
(* Theorems about the device builder, for every design, topology and       *)
(* overlay network, in whatever order it walks them.                       *)
(***************************************************************************)
EXTENDS DeviceBuilder, TLAPS

-----------------------------------------------------------------------------
(* Maps with keys.                                                         *)

LEMMA PutDomain ==
    ASSUME NEW f, NEW k, NEW v, NEW x
    PROVE  x \in DOMAIN Put(f, k, v) <=> x \in DOMAIN f \/ x = k
  BY DEF Put

LEMMA PutAt == \A f, k, v : \A x \in DOMAIN f \cup {k} : Put(f, k, v)[x] = IF x = k THEN v ELSE f[x]
  BY DEF Put

\* A list, of whatever it holds.
IsList(s) == s \in Seq(Range(s))

LEMMA ListBounds ==
    ASSUME NEW s, IsList(s)
    PROVE  /\ Len(s) \in Nat /\ DOMAIN s = 1 .. Len(s)
           /\ \A y : y \in Range(s) <=> \E i \in 1 .. Len(s) : s[i] = y
<1>1. Len(s) \in Nat /\ DOMAIN s = 1 .. Len(s)
  BY DEF IsList
<1>2. QED BY <1>1 DEF Range

LEMMA AdjoinList ==
    ASSUME NEW s, IsList(s), NEW x
    PROVE  /\ IsList(Adjoin(s, x))
           /\ \A y : y \in Range(Adjoin(s, x)) <=> y \in Range(s) \/ y = x
<1>1. CASE x \in Range(s)
  BY <1>1 DEF Adjoin
<1>2. CASE x \notin Range(s)
  <2> DEFINE t == Append(s, x)
             S == Range(s) \cup {x}
  <2>1. Adjoin(s, x) = t
    BY <1>2 DEF Adjoin
  <2>2. s \in Seq(S)
    BY SMT DEF IsList
  <2>3. /\ t \in Seq(S) /\ Len(t) = Len(s) + 1
        /\ \A i \in 1 .. Len(s) : t[i] = s[i]
        /\ t[Len(s) + 1] = x
    BY <2>2
  <2>4. Len(s) \in Nat /\ \A y : y \in Range(s) <=> \E i \in 1 .. Len(s) : s[i] = y
    BY ListBounds
  <2>5. \A y : y \in Range(t) <=> \E i \in 1 .. Len(t) : t[i] = y
    BY <2>3 DEF Range
  <2> HIDE DEF t
  <2>6. \A y : y \in Range(t) <=> y \in Range(s) \/ y = x
    BY <2>3, <2>4, <2>5
  <2>7. Range(t) = S
    BY <2>6
  <2>8. QED BY <2>1, <2>3, <2>6, <2>7 DEF IsList
<1>3. QED BY <1>1, <1>2

LEMMA EmptyList == IsList(<<>>) /\ Range(<<>>) = {}
  BY DEF IsList, Range

LEMMA WithBaseConfigNodes ==
    ASSUME NEW ds, NEW gathered, NEW n
    PROVE  DOMAIN WithBaseConfig(ds, gathered, n) = DOMAIN ds \cup ({n} \ nodeSet)
<1>1. PICK d : WithBaseConfig(ds, gathered, n) = IF n \in nodeSet THEN ds ELSE Put(ds, n, d)
  BY DEF WithBaseConfig
<1>2. CASE n \in nodeSet
  BY <1>1, <1>2
<1>3. CASE n \notin nodeSet
  <2>1. {n} \ nodeSet = {n} /\ WithBaseConfig(ds, gathered, n) = Put(ds, n, d)
    BY <1>1, <1>3
  <2>2. \A x : x \in DOMAIN Put(ds, n, d) <=> x \in DOMAIN ds \cup {n}
    BY PutDomain
  <2>3. DOMAIN Put(ds, n, d) = DOMAIN ds \cup {n}
    BY <2>2
  <2>4. QED BY <2>1, <2>3
<1>4. QED BY <1>2, <1>3

LEMMA WithEndNodes ==
    ASSUME NEW ds, NEW l, NEW i, NEW n
    PROVE  n \in DOMAIN WithEnd(ds, l, i) <=> n \in DOMAIN ds \/ n = l.ends[i].node
<1>1. PICK d : WithEnd(ds, l, i) = Put(ds, l.ends[i].node, d)
  BY DEF WithEnd
<1>2. QED BY <1>1, PutDomain

-----------------------------------------------------------------------------
(* What is remembered of a node, and where a build is.                     *)

\* A node is remembered as the design and its claims say, the overlay is built
\* for other networks only, and the shared timer is set if the design has one.
GatherInv ==
    /\ \A n \in DOMAIN nodes : nodes[n] = GatherNodeInfo(n)
    /\ pc = "services" => ~input.default
    /\ pc \in {"links", "edges", "reflectors"} => input.default
    /\ pc \in {"edges", "reflectors"} => IsIBGPEnabled(Design)
    /\ pc = "links" /\ Design.minRx # NotSet => minRx # NotSet
    /\ pc = "new" => devices = <<>>
    /\ input \in Inputs

BuildInv == BuilderTypeOK /\ GatherInv

LEMMA NewBuildHolds ==
    ASSUME input \in Inputs, NewBuild(input), input' = input, Len(built') \in 0 .. 1
    PROVE  BuildInv'
<1>1. input.default \in BOOLEAN
  BY InputsAssumption
<1>2. DOMAIN <<>> = {}
  OBVIOUS
<1>3. QED
  BY <1>1, <1>2 DEF NewBuild, BuildInv, BuilderTypeOK, GatherInv, Design

LEMMA ProcessLinkHolds == BuildInv /\ ProcessLink => BuildInv'
<1> SUFFICES ASSUME BuildInv, ProcessLink PROVE BuildInv'
  OBVIOUS
<1> USE DEF BuildInv
<1>0. PICK l \in pending :
         /\ pc = "links" /\ CanGather(l) /\ ~BFDPanics(l)
         /\ \A n \in NodesOf(l) : IsLabelled(n)
         /\ LET gathered == [n \in NodesOf(l) \cup DOMAIN nodes |->
                               IF n \in DOMAIN nodes THEN nodes[n] ELSE GatherNodeInfo(n)]
                base == WithBaseConfig(WithBaseConfig(devices, gathered, l.ends[1].node),
                                       gathered, l.ends[2].node)
            IN  /\ nodes' = gathered
                /\ devices' = WithEnd(WithEnd(base, l, 1), l, 2)
         /\ nodeSet' = nodeSet \cup NodesOf(l)
         /\ minRx' = IF IsBFDEnabled(Design) THEN BFDTimerAfter(l) ELSE minRx
         /\ pending' = pending \ {l}
         /\ UNCHANGED <<input, pc, work, edgeIPs, toPeer, built>>
  BY DEF ProcessLink
<1>1. /\ DOMAIN nodes' = DOMAIN nodes \cup NodesOf(l)
      /\ \A n \in DOMAIN nodes' : nodes'[n] = IF n \in DOMAIN nodes THEN nodes[n] ELSE GatherNodeInfo(n)
      /\ DOMAIN devices' = DOMAIN devices \cup (NodesOf(l) \ nodeSet) \cup NodesOf(l)
  <2> DEFINE gathered == [n \in NodesOf(l) \cup DOMAIN nodes |->
                             IF n \in DOMAIN nodes THEN nodes[n] ELSE GatherNodeInfo(n)]
             base1 == WithBaseConfig(devices, gathered, l.ends[1].node)
             base2 == WithBaseConfig(base1, gathered, l.ends[2].node)
  <2>1. nodes' = gathered /\ devices' = WithEnd(WithEnd(base2, l, 1), l, 2)
    BY <1>0
  <2>2. DOMAIN base1 = DOMAIN devices \cup ({l.ends[1].node} \ nodeSet)
    BY WithBaseConfigNodes
  <2> HIDE DEF base1
  <2>3. DOMAIN base2 = DOMAIN base1 \cup ({l.ends[2].node} \ nodeSet)
    BY WithBaseConfigNodes
  <2> HIDE DEF base2
  <2>4. \A n : n \in DOMAIN WithEnd(WithEnd(base2, l, 1), l, 2) <=> n \in DOMAIN base2 \cup NodesOf(l)
    BY WithEndNodes DEF NodesOf
  <2>5. QED BY <2>1, <2>2, <2>3, <2>4 DEF NodesOf
<1>2. \A n \in NodesOf(l) : GatherNodeInfo(n).routerID \in Claims(input)
  BY <1>0, <1>1 DEF NodesOf, CanGather, CanGatherNode, NodeClaimsAsked, GetNodeIPClaims, GatherNodeInfo
<1>3. Design' = Design /\ \A n : GatherNodeInfo(n)' = GatherNodeInfo(n)
  BY <1>0, <1>1 DEF Design, GatherNodeInfo
<1>4. BuilderTypeOK'
  BY <1>0, <1>1, <1>2, <1>3 DEF BuilderTypeOK
<1>5. Design.minRx # NotSet => minRx' # NotSet
  BY <1>0, <1>1, InputsAssumption DEF GatherInv, BuilderTypeOK, GetLinks, BFDTimerAfter, Override
<1>6. GatherInv'
  BY <1>0, <1>1, <1>3, <1>5 DEF GatherInv
<1>7. QED BY <1>4, <1>6

LEMMA PeeringHolds == BuildInv /\ (PeerEdges \/ PeerReflector) => BuildInv'
<1> SUFFICES ASSUME BuildInv, PeerEdges \/ PeerReflector PROVE BuildInv'
  OBVIOUS
<1> USE DEF BuildInv
<1>1. DOMAIN devices' = DOMAIN devices \/ ~input.default
  <2>1. CASE PeerEdges
    BY <2>1 DEF PeerEdges
  <2>2. CASE PeerReflector
    <3>1. PICK rr, dev :
             /\ rr \in toPeer
             /\ devices' = IF rr[1] \in DOMAIN nodes /\ rr[2] \in {"ipv4", "ipv6"}
                           THEN Put(devices, rr[1], dev) ELSE devices
      BY <2>2 DEF PeerReflector
    <3>2. CASE rr[1] \in DOMAIN nodes /\ devices' = Put(devices, rr[1], dev)
      <4>1. \A x : x \in DOMAIN devices' <=> x \in DOMAIN devices \cup {rr[1]}
        BY <3>2, PutDomain
      <4>2. QED BY <3>2, <4>1 DEF BuilderTypeOK
    <3>3. QED BY <3>1, <3>2
  <2>3. QED BY <2>1, <2>2
<1>2. /\ toPeer' \subseteq Design.reflectors /\ pc \in {"edges", "reflectors"}
      /\ pc' = "reflectors" /\ UNCHANGED <<input, pending, nodes, nodeSet, minRx, built>>
  BY DEF PeerEdges, PeerReflector, BuilderTypeOK
<1>3. Design' = Design /\ \A n : GatherNodeInfo(n)' = GatherNodeInfo(n)
  BY <1>2 DEF Design, GatherNodeInfo
<1>4. QED BY <1>1, <1>2, <1>3 DEF BuilderTypeOK, GatherInv

LEMMA OverlayHolds ==
    BuildInv /\ (SkipDynamic \/ BridgeInterface \/ RouterInterface) => BuildInv'
<1> SUFFICES ASSUME BuildInv, SkipDynamic \/ BridgeInterface \/ RouterInterface PROVE BuildInv'
  OBVIOUS
<1> USE DEF BuildInv
<1>1. pc = "services" /\ UNCHANGED <<pc, input, pending, nodes, nodeSet, minRx, edgeIPs, toPeer, built>>
  BY DEF SkipDynamic, BridgeInterface, RouterInterface, OverlayStep, Turn
<1>2. Design' = Design /\ \A n : GatherNodeInfo(n)' = GatherNodeInfo(n)
  BY <1>1 DEF Design, GatherNodeInfo
<1>3. QED BY <1>1, <1>2 DEF BuilderTypeOK, GatherInv

\* A build that ends, or goes on to the next loop.
LEMMA MoveOnHolds ==
    ASSUME BuildInv, UNCHANGED <<input, pending, work, nodes, nodeSet, minRx, edgeIPs, toPeer, devices, built>>,
           \/ pc' \in {"done", "failed", "panic"}
           \/ pc' = "edges" /\ pc = "links" /\ IsIBGPEnabled(Design)
    PROVE  BuildInv'
<1>1. Design' = Design /\ \A n : GatherNodeInfo(n)' = GatherNodeInfo(n)
  BY DEF Design, GatherNodeInfo
<1>2. QED BY <1>1 DEF BuildInv, BuilderTypeOK, GatherInv

LEMMA BuildStep == BuildInv /\ [Next]_vars => BuildInv'
<1> SUFFICES ASSUME BuildInv, [Next]_vars PROVE BuildInv'
  OBVIOUS
<1>1. CASE Start \/ BuildAgain
  BY <1>1, NewBuildHolds DEF Start, BuildAgain, BuildInv, BuilderTypeOK, GatherInv
<1>2. CASE LinkFails \/ LinkPanics \/ LinksDone \/ EdgesFail \/ EdgesPanic \/ ReflectorsDone
           \/ ServiceFails \/ ServicesDone
  BY <1>2, MoveOnHolds
  DEF LinkFails, LinkPanics, LinksDone, EdgesFail, EdgesPanic, ReflectorsDone, ServiceFails,
      ServicesDone, End
<1>3. CASE UNCHANGED vars
  <2>1. Design' = Design /\ \A n : GatherNodeInfo(n)' = GatherNodeInfo(n)
    BY <1>3 DEF vars, Design, GatherNodeInfo
  <2>2. QED BY <1>3, <2>1 DEF vars, BuildInv, BuilderTypeOK, GatherInv
<1>4. QED
  BY <1>1, <1>2, <1>3, ProcessLinkHolds, PeeringHolds, OverlayHolds DEF Next, BuildUnderlay, BuildOverlay

THEOREM BuildCorrect == Spec => []BuildInv
<1>1. Init => BuildInv
  BY DEF Init, BuildInv, BuilderTypeOK, GatherInv, Design
<1>2. QED BY <1>1, BuildStep, PTL DEF Spec

\* A build keeps to its types, for every input.
THEOREM BuilderTypes == Spec => []BuilderTypeOK
<1>1. BuildInv => BuilderTypeOK
  BY DEF BuildInv
<1>2. QED BY <1>1, BuildCorrect, PTL

-----------------------------------------------------------------------------
(* Sound input.  The params controller has made every claim asked for.     *)

LEMMA NodesHaveClaims ==
    ASSUME SoundInput, NEW n \in GetNodes(input)
    PROVE  NodeClaimsAsked(n) \subseteq Claims(input)
<1>1. Claims(input) = ParamClaims(input)
  BY DEF SoundInput, Claims
<1>2. NodeClaimsAsked(n) = GetNodeIPClaims(input.design, n) \cup GetNodeASClaim(input.design, n)
  BY DEF SoundInput, NodeClaimsAsked, GetNodeASClaim, Design
<1>3. GetNodeIPClaims(input.design, n) \cup GetNodeASClaim(input.design, n) \subseteq ParamClaims(input)
  BY DEF ParamClaims
<1>4. QED BY <1>1, <1>2, <1>3

LEMMA EndsHaveClaims ==
    ASSUME SoundInput, NEW l \in GetLinks(input), NEW i \in 1 .. 2
    PROVE  EndClaimsAsked(l.ends[i]) \subseteq Claims(input)
<1> DEFINE e == l.ends[i]
<1>1. Claims(input) = ParamClaims(input) /\ e.node \in GetNodes(input)
  BY DEF SoundInput, Claims
<1>2. {c \in {<<e.node, "as">>} : IsEBGPEnabled(Design)} \subseteq Claims(input)
  BY <1>1, NodesHaveClaims DEF NodeClaimsAsked
<1>3. \A af \in NumberedFamilies(Design) : <<e.node, e.ep, af>> \in GetLinkIPClaims(input.design, l)
  BY DEF GetLinkIPClaims, Design
<1>4. GetLinkIPClaims(input.design, l) \subseteq ParamClaims(input)
  BY DEF ParamClaims
<1>5. QED BY <1>1, <1>2, <1>3, <1>4 DEF EndClaimsAsked

LEMMA ReflectorsHaveClaims ==
    ASSUME SoundInput
    PROVE  /\ ReflectorsReady
           /\ \A rr \in Design.reflectors :
                 \/ rr[2] = "ipv4" /\ IsLoopbackIPv4Enabled(Design)
                 \/ rr[2] = "ipv6" /\ IsLoopbackIPv6Enabled(Design)
<1> SUFFICES ASSUME NEW rr \in Design.reflectors
             PROVE  /\ rr \in Claims(input)
                    /\ \/ rr[2] = "ipv4" /\ IsLoopbackIPv4Enabled(Design)
                       \/ rr[2] = "ipv6" /\ IsLoopbackIPv6Enabled(Design)
  BY DEF ReflectorsReady
<1>1. PICK n, af :
         /\ n \in GetNodes(input) /\ rr = <<n, af>>
         /\ \/ af = "ipv4" /\ IsLoopbackIPv4Enabled(Design)
            \/ af = "ipv6" /\ IsLoopbackIPv6Enabled(Design)
  BY DEF SoundInput
<1>2. rr \in NodeClaimsAsked(n)
  BY <1>1 DEF NodeClaimsAsked, GetNodeIPClaims
<1>3. QED BY <1>1, <1>2, NodesHaveClaims

LEMMA SoundStep == BuildInv /\ SoundInputBuilds /\ [Next]_vars => SoundInputBuilds'
<1> SUFFICES ASSUME BuildInv, SoundInputBuilds, [Next]_vars, SoundInput'
             PROVE  pc' \notin {"failed", "panic"}
  BY DEF SoundInputBuilds
<1>1. input' = input
  BY DEF Next, vars, Start, BuildAgain, BuildUnderlay, BuildOverlay, ProcessLink, LinkFails, LinkPanics,
     LinksDone, PeerEdges, EdgesFail, EdgesPanic, PeerReflector, ReflectorsDone, SkipDynamic,
     BridgeInterface, RouterInterface, OverlayStep, ServiceFails, ServicesDone, End
<1>2. SoundInput
  BY <1>1 DEF SoundInput, Design, IsLabelled
<1>3. pc \notin {"failed", "panic"}
  BY <1>2 DEF SoundInputBuilds
<1>4. ~LinkFails /\ ~LinkPanics
  <2> SUFFICES ASSUME NEW l \in pending, pc = "links"
               PROVE  CanGather(l) /\ ~BFDPanics(l) /\ \A n \in NodesOf(l) : IsLabelled(n)
    BY DEF LinkFails, LinkPanics
  <2>1. l \in GetLinks(input)
    BY DEF BuildInv, BuilderTypeOK
  <2>2. \A i \in 1 .. 2 : l.ends[i].node \in GetNodes(input)
    BY <1>2, <2>1 DEF SoundInput
  <2>3. CanGather(l)
    BY <1>2, <2>1, <2>2, NodesHaveClaims, EndsHaveClaims DEF CanGather, CanGatherNode, SoundInput
  <2>4. ~BFDPanics(l)
    BY <1>2, <2>1 DEF BFDPanics, SoundInput, BuildInv, GatherInv
  <2>5. QED BY <1>2, <2>2, <2>3, <2>4 DEF SoundInput, NodesOf
<1>5. ~EdgesFail
  BY <1>2, ReflectorsHaveClaims DEF EdgesFail
<1>6. ~EdgesPanic
  <2> SUFFICES ASSUME NEW n \in Edges, NEW rr \in Design.reflectors
               PROVE  Prefix(nodes[n], rr) # <<>>
    BY DEF EdgesPanic
  <2>1. nodes[n] = GatherNodeInfo(n)
    BY DEF Edges, BuildInv, GatherInv
  <2>2. \A a, b : <<a, b>> # <<>>
    OBVIOUS
  <2>3. QED BY <1>2, <2>1, <2>2, ReflectorsHaveClaims DEF Prefix, GatherNodeInfo
<1>7. ~ServiceFails
  BY <1>2 DEF ServiceFails, Turn, SoundInput, BuildInv, GatherInv
<1>8. QED
  BY <1>2, <1>3, <1>4, <1>5, <1>6, <1>7
  DEF Next, vars, Start, BuildAgain, NewBuild, BuildUnderlay, BuildOverlay, ProcessLink, LinksDone, PeerEdges,
      PeerReflector, ReflectorsDone, SkipDynamic, BridgeInterface, RouterInterface, OverlayStep, ServicesDone

\* Every build from sound input succeeds: all claims it asks for exist, and
\* nothing it dereferences is missing, for every design and topology.
THEOREM SoundBuilds == Spec => []SoundInputBuilds
<1>1. Init => SoundInputBuilds
  BY DEF Init, SoundInputBuilds
<1>2. QED BY <1>1, SoundStep, BuildCorrect, PTL DEF Spec

-----------------------------------------------------------------------------
(* The overlay.  What the operations of an item do to its device.          *)

Whole(d) ==
    /\ DOMAIN d = DOMAIN NewDevice
    /\ \A name \in DOMAIN d.instances :
          DOMAIN d.instances[name] = DOMAIN NewNetworkInstance /\ IsList(d.instances[name].interfaces)
    /\ \A x \in DOMAIN d.interfaces :
          DOMAIN d.interfaces[x] = {"vlanTagging"} /\ d.interfaces[x].vlanTagging \in BOOLEAN

NI(d, name) == GetOrCreateNetworkInstance(d, name)

\* d2 comes from d by operations on the instance called name: it has the
\* sub-interfaces in S, and is no less complete than before.
Adds(d, d2, name, S) ==
    /\ Whole(d2) /\ d2.subInterfaces = d.subInterfaces /\ d2.interfaces = d.interfaces
    /\ \A nm : nm \in DOMAIN d2.instances <=> nm \in DOMAIN d.instances \/ nm = name
    /\ \A nm \in DOMAIN d.instances : nm # name => d2.instances[nm] = d.instances[nm]
    /\ \A si : si \in Range(d2.instances[name].interfaces) <=> si \in Range(NI(d, name).interfaces) \/ si \in S
    /\ NI(d, name).type # "" => d2.instances[name].type # ""
    /\ NI(d, name).vpn # <<>> => d2.instances[name].vpn # <<>>

LEMMA NewDeviceWhole == Whole(NewDevice) /\ DOMAIN NewDevice.instances = {} /\ DOMAIN NewDevice.subInterfaces = {}
  BY DEF Whole, NewDevice

LEMMA InstanceFields ==
    ASSUME NEW d, Whole(d), NEW name
    PROVE  DOMAIN NI(d, name) = DOMAIN NewNetworkInstance /\ IsList(NI(d, name).interfaces)
<1>1. CASE name \in DOMAIN d.instances
  BY <1>1 DEF Whole, NI, GetOrCreateNetworkInstance, GetOrCreate
<1>2. CASE name \notin DOMAIN d.instances
  <2>1. NI(d, name) = NewNetworkInstance /\ NewNetworkInstance.interfaces = <<>>
    BY <1>2 DEF NI, GetOrCreateNetworkInstance, GetOrCreate, NewNetworkInstance
  <2>2. QED BY <2>1, EmptyList
<1>3. QED BY <1>1, <1>2

\* ni is the instance with the sub-interfaces in S added, and as complete.
Extends(d, name, ni, S) ==
    /\ DOMAIN ni = DOMAIN NewNetworkInstance /\ IsList(ni.interfaces)
    /\ \A si : si \in Range(ni.interfaces) <=> si \in Range(NI(d, name).interfaces) \/ si \in S
    /\ NI(d, name).type # "" => ni.type # ""
    /\ NI(d, name).vpn # <<>> => ni.vpn # <<>>

LEMMA SetInstanceFacts ==
    ASSUME NEW d, Whole(d), NEW name, NEW ni, NEW S, Extends(d, name, ni, S)
    PROVE  /\ Adds(d, SetNetworkInstance(d, name, ni), name, S)
           /\ SetNetworkInstance(d, name, ni).instances[name] = ni
<1> DEFINE d2 == SetNetworkInstance(d, name, ni)
           is == Put(d.instances, name, ni)
<1>1. /\ DOMAIN d2 = DOMAIN NewDevice /\ d2.instances = is
      /\ d2.subInterfaces = d.subInterfaces /\ d2.interfaces = d.interfaces
  BY DEF SetNetworkInstance, Whole, NewDevice
<1>2. \A nm : nm \in DOMAIN is <=> nm \in DOMAIN d.instances \/ nm = name
  BY PutDomain
<1>3. \A nm \in DOMAIN d.instances \cup {name} : is[nm] = IF nm = name THEN ni ELSE d.instances[nm]
  BY DEF Put
<1> HIDE DEF d2, is
<1>4. Whole(d2)
  BY <1>1, <1>2, <1>3 DEF Whole, Extends
<1>5. Adds(d, d2, name, S) /\ d2.instances[name] = ni
  BY <1>1, <1>2, <1>3, <1>4 DEF Adds, Extends
<1>6. QED BY <1>5 DEF d2

LEMMA AddsThenNothing ==
    ASSUME NEW d, NEW d2, NEW d3, NEW name, NEW S, Adds(d, d2, name, S), Adds(d2, d3, name, {})
    PROVE  /\ Adds(d, d3, name, S)
           /\ d2.instances[name].type # "" => d3.instances[name].type # ""
<1>1. NI(d2, name) = d2.instances[name]
  BY DEF Adds, NI, GetOrCreateNetworkInstance, GetOrCreate
<1>2. QED BY <1>1 DEF Adds

LEMMA NothingThenAdds ==
    ASSUME NEW d, NEW d2, NEW d3, NEW name, NEW S, Adds(d, d2, name, {}), Adds(d2, d3, name, S)
    PROVE  /\ Adds(d, d3, name, S)
           /\ d2.instances[name].type # "" => d3.instances[name].type # ""
<1>1. NI(d2, name) = d2.instances[name]
  BY DEF Adds, NI, GetOrCreateNetworkInstance, GetOrCreate
<1>2. QED BY <1>1 DEF Adds

LEMMA InstanceOps ==
    ASSUME NEW d, Whole(d), NEW name
    PROVE  /\ \A type : type # "" => /\ Adds(d, AddNetworkInstance(d, name, type), name, {})
                                     /\ AddNetworkInstance(d, name, type).instances[name].type # ""
           /\ \A si : Adds(d, AddNetworkInstanceSubInterface(d, name, si), name, {si})
           /\ \A si : Adds(d, AddNetworkInstanceSubInterfaceVXLAN(d, name, si), name, {})
           /\ \A evi : Adds(d, AddBGPEVPN(d, name, evi), name, {})
           /\ \A target : /\ Adds(d, AddBGPVPN(d, name, target), name, {})
                          /\ AddBGPVPN(d, name, target).instances[name].vpn # <<>>
<1>1. DOMAIN NI(d, name) = DOMAIN NewNetworkInstance /\ IsList(NI(d, name).interfaces)
  BY InstanceFields
<1>2. ASSUME NEW type, type # ""
      PROVE  /\ Adds(d, AddNetworkInstance(d, name, type), name, {})
             /\ AddNetworkInstance(d, name, type).instances[name].type # ""
  <2> DEFINE ni == [NI(d, name) EXCEPT !.type = type]
  <2>1. /\ DOMAIN ni = DOMAIN NewNetworkInstance /\ ni.type = type
        /\ ni.interfaces = NI(d, name).interfaces /\ ni.vpn = NI(d, name).vpn
    BY <1>1 DEF NewNetworkInstance
  <2>2. AddNetworkInstance(d, name, type) = SetNetworkInstance(d, name, ni)
    BY DEF AddNetworkInstance, NI
  <2> HIDE DEF ni
  <2>3. Extends(d, name, ni, {})
    BY <1>1, <1>2, <2>1 DEF Extends
  <2>4. /\ Adds(d, SetNetworkInstance(d, name, ni), name, {})
        /\ SetNetworkInstance(d, name, ni).instances[name] = ni
    BY <2>3, SetInstanceFacts
  <2>5. QED BY <1>2, <2>1, <2>2, <2>4
<1>3. ASSUME NEW si PROVE Adds(d, AddNetworkInstanceSubInterface(d, name, si), name, {si})
  <2> DEFINE ni == [NI(d, name) EXCEPT !.interfaces = Adjoin(@, si)]
  <2>1. /\ DOMAIN ni = DOMAIN NewNetworkInstance /\ ni.type = NI(d, name).type
        /\ ni.interfaces = Adjoin(NI(d, name).interfaces, si) /\ ni.vpn = NI(d, name).vpn
    BY <1>1 DEF NewNetworkInstance
  <2>2. AddNetworkInstanceSubInterface(d, name, si) = SetNetworkInstance(d, name, ni)
    BY DEF AddNetworkInstanceSubInterface, NI
  <2> HIDE DEF ni
  <2>3. Extends(d, name, ni, {si})
    BY <1>1, <2>1, AdjoinList DEF Extends
  <2>4. Adds(d, SetNetworkInstance(d, name, ni), name, {si})
    BY <2>3, SetInstanceFacts
  <2>5. QED BY <2>2, <2>4
\* The operations that set neither the type nor the sub-interfaces.
<1>4. ASSUME NEW ni, DOMAIN ni = DOMAIN NewNetworkInstance, ni.type = NI(d, name).type,
             ni.interfaces = NI(d, name).interfaces, NI(d, name).vpn # <<>> => ni.vpn # <<>>
      PROVE  /\ Adds(d, SetNetworkInstance(d, name, ni), name, {})
             /\ SetNetworkInstance(d, name, ni).instances[name] = ni
  <2>1. Extends(d, name, ni, {})
    BY <1>1, <1>4 DEF Extends
  <2>2. QED BY <2>1, SetInstanceFacts
<1>5. ASSUME NEW si PROVE Adds(d, AddNetworkInstanceSubInterfaceVXLAN(d, name, si), name, {})
  <2> DEFINE ni == [NI(d, name) EXCEPT !.vxlan = <<si>>]
  <2>1. /\ DOMAIN ni = DOMAIN NewNetworkInstance /\ ni.type = NI(d, name).type
        /\ ni.interfaces = NI(d, name).interfaces /\ ni.vpn = NI(d, name).vpn
    BY <1>1 DEF NewNetworkInstance
  <2>2. AddNetworkInstanceSubInterfaceVXLAN(d, name, si) = SetNetworkInstance(d, name, ni)
    BY DEF AddNetworkInstanceSubInterfaceVXLAN, NI
  <2> HIDE DEF ni
  <2>3. QED BY <1>4, <2>1, <2>2
<1>6. ASSUME NEW evi PROVE Adds(d, AddBGPEVPN(d, name, evi), name, {})
  <2> DEFINE ni == [NI(d, name) EXCEPT !.evpn = <<evi>>]
  <2>1. /\ DOMAIN ni = DOMAIN NewNetworkInstance /\ ni.type = NI(d, name).type
        /\ ni.interfaces = NI(d, name).interfaces /\ ni.vpn = NI(d, name).vpn
    BY <1>1 DEF NewNetworkInstance
  <2>2. AddBGPEVPN(d, name, evi) = SetNetworkInstance(d, name, ni)
    BY DEF AddBGPEVPN, NI
  <2> HIDE DEF ni
  <2>3. QED BY <1>4, <2>1, <2>2
<1>7. ASSUME NEW target
      PROVE  /\ Adds(d, AddBGPVPN(d, name, target), name, {})
             /\ AddBGPVPN(d, name, target).instances[name].vpn # <<>>
  <2> DEFINE ni == [NI(d, name) EXCEPT !.vpn = <<target>>]
  <2>1. /\ DOMAIN ni = DOMAIN NewNetworkInstance /\ ni.type = NI(d, name).type
        /\ ni.interfaces = NI(d, name).interfaces /\ ni.vpn # <<>>
    BY <1>1 DEF NewNetworkInstance
  <2>2. AddBGPVPN(d, name, target) = SetNetworkInstance(d, name, ni)
    BY DEF AddBGPVPN, NI
  <2> HIDE DEF ni
  <2>3. QED BY <1>4, <2>1, <2>2
<1>8. QED BY <1>2, <1>3, <1>5, <1>6, <1>7

LEMMA WithServiceAdds ==
    ASSUME NEW d, Whole(d), NEW name, NEW id, NEW type
    PROVE  /\ Adds(d, WithService(d, name, id, type), name, {})
           /\ WithService(d, name, id, type).instances[name].vpn # <<>>
<1> DEFINE d0 == AddTunnelSubInterface(d, <<"vxlan0", id>>, type)
           d1 == IF IsVXLANEnabled(Design) THEN AddNetworkInstanceSubInterfaceVXLAN(d0, name, <<"vxlan0", id>>)
                                           ELSE d
           d2 == AddBGPEVPN(d1, name, id)
           d3 == AddBGPVPN(d2, name, <<GetIBGPAS(Design), id>>)
<1>1. WithService(d, name, id, type) = d3
  BY DEF WithService
<1>2. /\ Whole(d0) /\ d0.instances = d.instances
      /\ d0.subInterfaces = d.subInterfaces /\ d0.interfaces = d.interfaces
  BY DEF Whole, AddTunnelSubInterface, NewDevice
<1>3. NI(d0, name) = NI(d, name)
  BY <1>2 DEF NI, GetOrCreateNetworkInstance
<1> HIDE DEF d0
<1>4. Adds(d0, AddNetworkInstanceSubInterfaceVXLAN(d0, name, <<"vxlan0", id>>), name, {})
  BY <1>2, InstanceOps
<1>5. Adds(d, AddNetworkInstanceSubInterfaceVXLAN(d0, name, <<"vxlan0", id>>), name, {})
  BY <1>2, <1>3, <1>4 DEF Adds
<1>6. Whole(d1) /\ (d1 = d \/ Adds(d, d1, name, {}))
  BY <1>5 DEF Adds
<1> HIDE DEF d1
<1>7. Adds(d1, d2, name, {})
  BY <1>6, InstanceOps
<1> HIDE DEF d2
<1>7a. Whole(d2)
  BY <1>7 DEF Adds
<1>8. Adds(d2, d3, name, {}) /\ d3.instances[name].vpn # <<>>
  BY <1>7a, InstanceOps
<1> HIDE DEF d3
<1>9. Adds(d1, d3, name, {})
  BY <1>7, <1>8, AddsThenNothing
<1>10. Adds(d, d3, name, {})
  BY <1>6, <1>9, AddsThenNothing
<1>11. QED BY <1>1, <1>8, <1>10

-----------------------------------------------------------------------------
(* An item and its device.                                                 *)

IsIRB(w) == w[1] = "router" /\ ~Missing(Item(w).itfce.bridge)
Sub(w) == IF IsIRB(w) THEN <<"irb0", Item(w).id>> ELSE <<Item(w).itfce.endpoint, Item(w).id>>

\* The network instances the sub-interface of the item joins.
Joins(name, w) == name = Item(w).name \/ (IsIRB(w) /\ name = Item(w).itfce.bridge)

Has(d, name, si) == name \in DOMAIN d.instances /\ si \in Range(d.instances[name].interfaces)
Complete(d, name) == d.instances[name].type # "" /\ d.instances[name].vpn # <<>>
Tagged(d, x) == x \in DOMAIN d.interfaces /\ d.interfaces[x].vlanTagging

\* The sub-interface of the item is as the item says.
Configured(d, w) ==
    /\ Sub(w) \in DOMAIN d.subInterfaces
    /\ IsIRB(w) => /\ d.subInterfaces[Sub(w)].ipv4 = <<AddressesIn(Item(w).itfce, "ipv4")>>
                   /\ d.subInterfaces[Sub(w)].ipv6 = <<AddressesIn(Item(w).itfce, "ipv6")>>
    /\ ~IsIRB(w) => /\ d.subInterfaces[Sub(w)].vlan = VLANOf(Item(w))
                    /\ Tagged(d, Item(w).itfce.endpoint)

\* The interfaces of d2 are those of d and the one of the item.
Connects(d, d2, w) ==
    /\ Configured(d2, w)
    /\ \A si \in DOMAIN d.subInterfaces :
          si \in DOMAIN d2.subInterfaces /\ (si # Sub(w) => d2.subInterfaces[si] = d.subInterfaces[si])
    /\ \A x : Tagged(d, x) => Tagged(d2, x)

\* The item is added to the device, and nothing else.
Touches(d, d2, w) ==
    /\ Whole(d2) /\ Connects(d, d2, w)
    /\ \A name, si : Has(d2, name, si) <=> Has(d, name, si) \/ (Joins(name, w) /\ si = Sub(w))
    /\ \A name \in DOMAIN d.instances : name \in DOMAIN d2.instances /\ (Complete(d, name) => Complete(d2, name))
    /\ Item(w).name \in DOMAIN d2.instances /\ Complete(d2, Item(w).name)
    /\ \A name \in DOMAIN d2.instances : ~Complete(d2, name) =>
          \/ name \in DOMAIN d.instances /\ ~Complete(d, name)
          \/ IsIRB(w) /\ name = Item(w).itfce.bridge

LEMMA AddsHas ==
    ASSUME NEW d, NEW d2, NEW name, NEW S, Adds(d, d2, name, S)
    PROVE  /\ \A nm, si : Has(d2, nm, si) <=> Has(d, nm, si) \/ (nm = name /\ si \in S)
           /\ \A nm \in DOMAIN d.instances :
                 nm \in DOMAIN d2.instances /\ (Complete(d, nm) => Complete(d2, nm))
           /\ \A nm \in DOMAIN d2.instances : nm # name =>
                 nm \in DOMAIN d.instances /\ (Complete(d2, nm) <=> Complete(d, nm))
           /\ name \in DOMAIN d2.instances
<1>1. /\ name \in DOMAIN d.instances => NI(d, name) = d.instances[name]
      /\ name \notin DOMAIN d.instances => Range(NI(d, name).interfaces) = {}
  BY EmptyList DEF NI, GetOrCreateNetworkInstance, GetOrCreate, NewNetworkInstance
<1>2. \A nm, si : Has(d2, nm, si) <=> Has(d, nm, si) \/ (nm = name /\ si \in S)
  BY <1>1 DEF Adds, Has
<1>3. QED BY <1>1, <1>2 DEF Adds, Complete

LEMMA AddSubInterfaceConnects ==
    ASSUME NEW d, Whole(d), NEW w, NEW x,
           IsIRB(w) => /\ x.ipv4 = <<AddressesIn(Item(w).itfce, "ipv4")>>
                       /\ x.ipv6 = <<AddressesIn(Item(w).itfce, "ipv6")>> /\ x.vlan = <<>>,
           ~IsIRB(w) => x.vlan = VLANOf(Item(w))
    PROVE  LET d2 == AddSubInterface(d, Sub(w), x)
           IN  Whole(d2) /\ Connects(d, d2, w) /\ d2.instances = d.instances
<1> DEFINE si == Sub(w)
           old == GetOrCreate(d.interfaces, si[1], [vlanTagging |-> FALSE])
           new == [vlanTagging |-> old.vlanTagging \/ x.vlan # <<>>]
           is == Put(d.interfaces, si[1], new)
           ss == Put(d.subInterfaces, si, x)
           d2 == AddSubInterface(d, si, x)
<1>1. /\ DOMAIN d2 = DOMAIN NewDevice /\ d2.interfaces = is /\ d2.subInterfaces = ss
      /\ d2.instances = d.instances
  BY DEF AddSubInterface, Whole, NewDevice
<1>2. DOMAIN old = {"vlanTagging"} /\ old.vlanTagging \in BOOLEAN
  BY DEF Whole, GetOrCreate
<1>3. si[1] \in DOMAIN d.interfaces => old = d.interfaces[si[1]]
  BY DEF GetOrCreate
<1> HIDE DEF old
<1>4. /\ DOMAIN new = {"vlanTagging"} /\ new.vlanTagging \in BOOLEAN
      /\ new.vlanTagging <=> old.vlanTagging \/ x.vlan # <<>>
  BY <1>2
<1> HIDE DEF new
<1>5. /\ \A y : y \in DOMAIN is <=> y \in DOMAIN d.interfaces \/ y = si[1]
      /\ \A y \in DOMAIN d.interfaces \cup {si[1]} : is[y] = IF y = si[1] THEN new ELSE d.interfaces[y]
      /\ \A y : y \in DOMAIN ss <=> y \in DOMAIN d.subInterfaces \/ y = si
      /\ \A y \in DOMAIN d.subInterfaces \cup {si} : ss[y] = IF y = si THEN x ELSE d.subInterfaces[y]
  BY DEF Put
<1> HIDE DEF is, ss, d2
<1>6. Whole(d2)
  <2>1. \A y \in DOMAIN is : DOMAIN is[y] = {"vlanTagging"} /\ is[y].vlanTagging \in BOOLEAN
    <3> SUFFICES ASSUME NEW y \in DOMAIN is
                 PROVE  DOMAIN is[y] = {"vlanTagging"} /\ is[y].vlanTagging \in BOOLEAN
      OBVIOUS
    <3>1. CASE y = si[1]
      <4>1. is[y] = new
        BY <1>5, <3>1
      <4>2. QED BY <1>4, <4>1
    <3>2. CASE y # si[1]
      <4>1. y \in DOMAIN d.interfaces /\ is[y] = d.interfaces[y]
        BY <1>5, <3>2
      <4>2. QED BY <4>1 DEF Whole
    <3>3. QED BY <3>1, <3>2
  <2>2. \A name \in DOMAIN d2.instances :
           DOMAIN d2.instances[name] = DOMAIN NewNetworkInstance /\ IsList(d2.instances[name].interfaces)
    BY <1>1 DEF Whole
  <2>3. QED BY <1>1, <2>1, <2>2 DEF Whole
<1>7. \A y : Tagged(d, y) => Tagged(d2, y)
  BY <1>1, <1>3, <1>4, <1>5 DEF Tagged
<1>8. ~IsIRB(w) => Tagged(d2, Item(w).itfce.endpoint)
  <2>1. ~IsIRB(w) => si[1] = Item(w).itfce.endpoint
    BY DEF Sub
  <2>1a. \A a : <<a>> # <<>>
    OBVIOUS
  <2>1b. ~IsIRB(w) => x.vlan # <<>>
    BY <2>1a DEF VLANOf
  <2>2. QED BY <2>1, <2>1b, <1>1, <1>4, <1>5 DEF Tagged
<1>9. Configured(d2, w)
  BY <1>1, <1>5, <1>8 DEF Configured
<1>10. Connects(d, d2, w)
  BY <1>1, <1>5, <1>7, <1>9 DEF Connects
<1>11. QED BY <1>1, <1>6, <1>10 DEF d2

LEMMA ProviderKeeps ==
    ASSUME NEW d, Whole(d), NEW provider
    PROVE  LET d2 == AddProvider(d, provider)
           IN  /\ Whole(d2) /\ d2.instances = d.instances
               /\ d2.subInterfaces = d.subInterfaces /\ d2.interfaces = d.interfaces
  BY DEF AddProvider, Whole, NewDevice

LEMMA BridgeTouches ==
    ASSUME NEW d, Whole(d), NEW w, w[1] = "bridge"
    PROVE  Touches(d, BridgeDevice(d, Item(w)), w)
<1> DEFINE item == Item(w)
           name == item.name
           si == <<item.itfce.endpoint, item.id>>
           x == [peer |-> <<"customer">>, vlan |-> VLANOf(item), type |-> "bridged",
                 ipv4 |-> <<>>, ipv6 |-> <<>>]
           d0 == AddProvider(d, input.endpoints[<<item.itfce.node, item.itfce.endpoint>>])
           d1 == AddSubInterface(d0, si, x)
           d2 == AddNetworkInstance(d1, name, "mac-vrf")
           d3 == AddNetworkInstanceSubInterface(d2, name, si)
           d4 == WithService(d3, name, item.id, "bridged")
<1>1. BridgeDevice(d, item) = d4
  BY DEF BridgeDevice
<1>2. ~IsIRB(w) /\ si = Sub(w)
  BY DEF IsIRB, Sub
<1>3. /\ Whole(d0) /\ d0.instances = d.instances
      /\ d0.subInterfaces = d.subInterfaces /\ d0.interfaces = d.interfaces
  BY ProviderKeeps
<1>4. x.vlan = VLANOf(item)
  OBVIOUS
<1> HIDE DEF d0, x
<1>5. Whole(d1) /\ Connects(d0, d1, w) /\ d1.instances = d0.instances
  BY <1>2, <1>3, <1>4, AddSubInterfaceConnects
<1> HIDE DEF d1, name, si
<1>6. Adds(d1, d2, name, {}) /\ d2.instances[name].type # ""
  BY <1>5, InstanceOps
<1> HIDE DEF d2
<1>7. Whole(d2)
  BY <1>6 DEF Adds
<1>8. Adds(d2, d3, name, {si})
  BY <1>7, InstanceOps
<1> HIDE DEF d3
<1>9. Whole(d3) /\ Adds(d1, d3, name, {si}) /\ d3.instances[name].type # ""
  <2>1. Adds(d1, d3, name, {si}) /\ d3.instances[name].type # ""
    BY <1>6, <1>8, NothingThenAdds
  <2>2. Whole(d3)
    BY <1>8 DEF Adds
  <2>3. QED BY <2>1, <2>2
<1>10. Adds(d3, d4, name, {}) /\ d4.instances[name].vpn # <<>>
  BY <1>9, WithServiceAdds
<1> HIDE DEF d4
<1>11. Adds(d1, d4, name, {si}) /\ Complete(d4, name)
  <2>1. Adds(d1, d4, name, {si}) /\ d4.instances[name].type # ""
    BY <1>9, <1>10, AddsThenNothing
  <2>2. QED BY <1>10, <2>1 DEF Complete
<1>12. /\ \A nm, s : Has(d4, nm, s) <=> Has(d1, nm, s) \/ (nm = name /\ s \in {si})
       /\ \A nm \in DOMAIN d1.instances :
             nm \in DOMAIN d4.instances /\ (Complete(d1, nm) => Complete(d4, nm))
       /\ \A nm \in DOMAIN d4.instances : nm # name =>
             nm \in DOMAIN d1.instances /\ (Complete(d4, nm) <=> Complete(d1, nm))
       /\ name \in DOMAIN d4.instances
  BY <1>11, AddsHas
<1>13. Whole(d4) /\ Connects(d, d4, w)
  BY <1>3, <1>5, <1>11 DEF Adds, Connects, Configured, Tagged
<1>14. \A nm, s : Has(d1, nm, s) <=> Has(d, nm, s)
  BY <1>3, <1>5 DEF Has
<1>15. \A nm : Complete(d1, nm) <=> Complete(d, nm)
  BY <1>3, <1>5 DEF Complete
<1>16. \A nm : Joins(nm, w) <=> nm = name
  BY <1>2 DEF Joins, name
<1>17. Touches(d, d4, w)
  BY <1>2, <1>3, <1>5, <1>11, <1>12, <1>13, <1>14, <1>15, <1>16 DEF Touches, name
<1>18. QED BY <1>1, <1>17

LEMMA RouterTouches ==
    ASSUME NEW d, Whole(d), NEW w, w[1] = "router"
    PROVE  Touches(d, RouterDevice(d, Item(w)), w)
<1> DEFINE item == Item(w)
           name == item.name
           bridge == item.itfce.bridge
           si == Sub(w)
           x == IF Missing(bridge) THEN RoutedSubInterface(item) ELSE IRBSubInterface(item)
           d0 == AddProvider(d, ProviderOf(item.itfce))
           d1 == AddNetworkInstance(d0, name, "ip-vrf")
           d2 == WithService(d1, name, item.id, "routed")
           d3 == AddSubInterface(d2, si, x)
           d4 == AddNetworkInstanceSubInterface(d3, name, si)
           d5 == IF Missing(bridge) THEN d4 ELSE AddNetworkInstanceSubInterface(d4, bridge, si)
<1>0. IsIRB(w) <=> ~Missing(bridge)
  BY DEF IsIRB
<1>1. RouterDevice(d, item) = d5
  BY <1>0 DEF RouterDevice, Sub
<1>2. /\ IsIRB(w) => /\ x.ipv4 = <<AddressesIn(item.itfce, "ipv4")>>
                     /\ x.ipv6 = <<AddressesIn(item.itfce, "ipv6")>> /\ x.vlan = <<>>
      /\ ~IsIRB(w) => x.vlan = VLANOf(item)
  BY <1>0 DEF RoutedSubInterface, IRBSubInterface
<1>3. /\ Whole(d0) /\ d0.instances = d.instances
      /\ d0.subInterfaces = d.subInterfaces /\ d0.interfaces = d.interfaces
  BY ProviderKeeps
<1> HIDE DEF d0, x
<1>4. Adds(d0, d1, name, {}) /\ d1.instances[name].type # ""
  BY <1>3, InstanceOps
<1> HIDE DEF d1
<1>5. Whole(d1)
  BY <1>4 DEF Adds
<1>6. Adds(d1, d2, name, {}) /\ d2.instances[name].vpn # <<>>
  BY <1>5, WithServiceAdds
<1> HIDE DEF d2
<1>7. Adds(d0, d2, name, {}) /\ Complete(d2, name) /\ Whole(d2)
  <2>1. Adds(d0, d2, name, {}) /\ d2.instances[name].type # ""
    BY <1>4, <1>6, AddsThenNothing
  <2>2. Whole(d2)
    BY <1>6 DEF Adds
  <2>3. QED BY <1>6, <2>1, <2>2 DEF Complete
<1>8. Whole(d3) /\ Connects(d2, d3, w) /\ d3.instances = d2.instances
  BY <1>2, <1>7, AddSubInterfaceConnects
<1> HIDE DEF d3
<1>9. Adds(d3, d4, name, {si})
  BY <1>8, InstanceOps
<1> HIDE DEF d4
<1>10. Whole(d4)
  BY <1>9 DEF Adds
<1>11. IsIRB(w) => Adds(d4, d5, bridge, {si})
  BY <1>0, <1>10, InstanceOps
<1>12. ~IsIRB(w) => d5 = d4
  BY <1>0
<1> HIDE DEF d5
<1>13. Whole(d5) /\ Connects(d, d5, w)
  <2>1. d2.subInterfaces = d.subInterfaces /\ d2.interfaces = d.interfaces
    BY <1>3, <1>7 DEF Adds
  <2>2. /\ Whole(d5) /\ d5.subInterfaces = d3.subInterfaces /\ d5.interfaces = d3.interfaces
    BY <1>9, <1>10, <1>11, <1>12 DEF Adds
  <2>3. QED BY <1>8, <2>1, <2>2 DEF Connects, Configured, Tagged
\* What each operation does to the instances, one after the other.
<1>14. /\ \A nm, s : Has(d2, nm, s) <=> Has(d, nm, s)
       /\ \A nm \in DOMAIN d.instances : nm \in DOMAIN d2.instances /\ (Complete(d, nm) => Complete(d2, nm))
       /\ \A nm \in DOMAIN d2.instances : nm # name =>
             nm \in DOMAIN d.instances /\ (Complete(d2, nm) <=> Complete(d, nm))
       /\ name \in DOMAIN d2.instances /\ Complete(d2, name)
  <2>1. /\ \A nm, s : Has(d2, nm, s) <=> Has(d0, nm, s) \/ (nm = name /\ s \in {})
        /\ \A nm \in DOMAIN d0.instances :
              nm \in DOMAIN d2.instances /\ (Complete(d0, nm) => Complete(d2, nm))
        /\ \A nm \in DOMAIN d2.instances : nm # name =>
              nm \in DOMAIN d0.instances /\ (Complete(d2, nm) <=> Complete(d0, nm))
        /\ name \in DOMAIN d2.instances
    BY <1>7, AddsHas
  <2>2. \A nm, s : (Has(d0, nm, s) <=> Has(d, nm, s)) /\ (Complete(d0, nm) <=> Complete(d, nm))
    BY <1>3 DEF Has, Complete
  <2>3. QED BY <1>3, <1>7, <2>1, <2>2
<1>15. /\ \A nm, s : Has(d4, nm, s) <=> Has(d2, nm, s) \/ (nm = name /\ s \in {si})
       /\ \A nm \in DOMAIN d2.instances : nm \in DOMAIN d4.instances /\ (Complete(d2, nm) => Complete(d4, nm))
       /\ \A nm \in DOMAIN d4.instances : nm # name =>
             nm \in DOMAIN d2.instances /\ (Complete(d4, nm) <=> Complete(d2, nm))
       /\ name \in DOMAIN d4.instances
  <2>1. /\ \A nm, s : Has(d4, nm, s) <=> Has(d3, nm, s) \/ (nm = name /\ s \in {si})
        /\ \A nm \in DOMAIN d3.instances :
              nm \in DOMAIN d4.instances /\ (Complete(d3, nm) => Complete(d4, nm))
        /\ \A nm \in DOMAIN d4.instances : nm # name =>
              nm \in DOMAIN d3.instances /\ (Complete(d4, nm) <=> Complete(d3, nm))
        /\ name \in DOMAIN d4.instances
    BY <1>9, AddsHas
  <2>2. \A nm, s : (Has(d3, nm, s) <=> Has(d2, nm, s)) /\ (Complete(d3, nm) <=> Complete(d2, nm))
    BY <1>8 DEF Has, Complete
  <2>3. QED BY <1>8, <2>1, <2>2
<1>16. IsIRB(w) =>
          /\ \A nm, s : Has(d5, nm, s) <=> Has(d4, nm, s) \/ (nm = bridge /\ s \in {si})
          /\ \A nm \in DOMAIN d4.instances :
                nm \in DOMAIN d5.instances /\ (Complete(d4, nm) => Complete(d5, nm))
          /\ \A nm \in DOMAIN d5.instances : nm # bridge =>
                nm \in DOMAIN d4.instances /\ (Complete(d5, nm) <=> Complete(d4, nm))
  BY <1>11, AddsHas
<1>17. \A nm, s : Has(d5, nm, s) <=> Has(d, nm, s) \/ (Joins(nm, w) /\ s = Sub(w))
  BY <1>12, <1>14, <1>15, <1>16 DEF Joins
<1>18. \A nm \in DOMAIN d.instances : nm \in DOMAIN d5.instances /\ (Complete(d, nm) => Complete(d5, nm))
  BY <1>12, <1>14, <1>15, <1>16
<1>19. name \in DOMAIN d5.instances /\ Complete(d5, name)
  BY <1>12, <1>14, <1>15, <1>16
<1>20. \A nm \in DOMAIN d5.instances : ~Complete(d5, nm) =>
          \/ nm \in DOMAIN d.instances /\ ~Complete(d, nm)
          \/ IsIRB(w) /\ nm = bridge
  BY <1>12, <1>14, <1>15, <1>16, <1>19
<1>21. Touches(d, d5, w)
  BY <1>13, <1>17, <1>18, <1>19, <1>20 DEF Touches
<1>22. QED BY <1>1, <1>21

-----------------------------------------------------------------------------
(* The overlay so far.                                                     *)

On(w) == Item(w).itfce.node
Processed == {w \in AllInterfaces(input) \ work : ~Item(w).itfce.dynamic}

\* The device has what the item asks for.
Serves(d, w) ==
    /\ Configured(d, w) /\ Complete(d, Item(w).name)
    /\ \A name : Joins(name, w) => Has(d, name, Sub(w))

\* What a device has comes from the items on its node; an instance that only
\* IRB interfaces have joined is that of a bridge.
ComesFromItems(n, d) ==
    /\ \A name, si : Has(d, name, si) => \E w \in Processed : On(w) = n /\ Joins(name, w) /\ si = Sub(w)
    /\ \A name \in DOMAIN d.instances : ~Complete(d, name) =>
          \E w \in Processed : On(w) = n /\ IsIRB(w) /\ name = Item(w).itfce.bridge

ServicesInv ==
    /\ work \subseteq AllInterfaces(input)
    /\ pc = "done" => work = {}
    /\ \A w \in Processed : On(w) \in DOMAIN devices /\ Serves(devices[On(w)], w)
    /\ \A n \in DOMAIN devices : Whole(devices[n]) /\ ComesFromItems(n, devices[n])

OverlayInv == pc \in {"services", "done"} /\ ~input.default /\ WellFormedServices => ServicesInv

LEMMA ItemsAreOfServices ==
    ASSUME NEW w \in AllInterfaces(input), ~Item(w).itfce.dynamic
    PROVE  /\ Item(w).name = ServiceAt(w).name /\ Item(w).id = ServiceAt(w).id
           /\ Item(w).itfce \in Static(ServiceAt(w))
           /\ \/ w[1] = "bridge" /\ ServiceAt(w) \in Bridges
              \/ w[1] = "router" /\ ServiceAt(w) \in Routers
<1>1. CASE \E k \in DOMAIN input.bridges : \E j \in DOMAIN input.bridges[k].interfaces :
              w = <<"bridge", k, j>>
  BY <1>1 DEF Item, ServiceAt, Static, Bridges
<1>2. CASE \E k \in DOMAIN input.routers : \E j \in DOMAIN input.routers[k].interfaces :
              w = <<"router", k, j>>
  BY <1>2 DEF Item, ServiceAt, Static, Routers
<1>3. QED BY <1>1, <1>2 DEF AllInterfaces

\* A port or an IRB interface of a service is one of the items.
LEMMA ServicesHaveItems ==
    ASSUME NEW s, NEW i \in Static(s)
    PROVE  /\ s \in Bridges => \E w \in AllInterfaces(input) :
                w[1] = "bridge" /\ ServiceAt(w) = s /\ Item(w).itfce = i
           /\ s \in Routers => \E w \in AllInterfaces(input) :
                w[1] = "router" /\ ServiceAt(w) = s /\ Item(w).itfce = i
<1>1. PICK j \in DOMAIN s.interfaces : i = s.interfaces[j]
  BY DEF Static
<1>2. ASSUME s \in Bridges
      PROVE  \E w \in AllInterfaces(input) : w[1] = "bridge" /\ ServiceAt(w) = s /\ Item(w).itfce = i
  <2>1. PICK k \in DOMAIN input.bridges : s = input.bridges[k]
    BY <1>2 DEF Bridges
  <2>2. <<"bridge", k, j>> \in AllInterfaces(input)
    BY <1>1, <2>1 DEF AllInterfaces
  <2>3. QED BY <1>1, <2>1, <2>2 DEF ServiceAt, Item
<1>3. ASSUME s \in Routers
      PROVE  \E w \in AllInterfaces(input) : w[1] = "router" /\ ServiceAt(w) = s /\ Item(w).itfce = i
  <2>1. PICK k \in DOMAIN input.routers : s = input.routers[k]
    BY <1>3 DEF Routers
  <2>2. <<"router", k, j>> \in AllInterfaces(input)
    BY <1>1, <2>1 DEF AllInterfaces
  <2>3. QED BY <1>1, <2>1, <2>2 DEF ServiceAt, Item
<1>4. QED BY <1>2, <1>3

\* In well-formed services a sub-interface of a node is that of one item.
LEMMA SubsTellItemsApart ==
    ASSUME WellFormedServices,
           NEW v \in AllInterfaces(input), ~Item(v).itfce.dynamic,
           NEW w \in AllInterfaces(input), ~Item(w).itfce.dynamic, On(v) = On(w), Sub(v) = Sub(w)
    PROVE  (IsIRB(v) <=> IsIRB(w)) /\ Item(v) = Item(w)
<1> DEFINE s == ServiceAt(v)
           i == Item(v).itfce
           j == Item(w).itfce
<1>1. Item(v).id = Item(w).id
  BY DEF Sub
<1>2. /\ Item(v).name = s.name /\ Item(v).id = s.id /\ i \in Static(s)
      /\ \/ v[1] = "bridge" /\ s \in Bridges
         \/ v[1] = "router" /\ s \in Routers
  BY ItemsAreOfServices
<1>3. /\ Item(w).name = ServiceAt(w).name /\ Item(w).id = ServiceAt(w).id /\ j \in Static(ServiceAt(w))
      /\ \/ w[1] = "bridge" /\ ServiceAt(w) \in Bridges
         \/ w[1] = "router" /\ ServiceAt(w) \in Routers
  BY ItemsAreOfServices
<1>4. ServiceAt(w) = s
  <2>1. s.id = ServiceAt(w).id /\ s \in Bridges \cup Routers /\ ServiceAt(w) \in Bridges \cup Routers
    BY <1>1, <1>2, <1>3
  <2>2. \A x, y \in Bridges \cup Routers : x # y => x.id # y.id
    BY DEF WellFormedServices
  <2> HIDE DEF s
  <2>3. QED BY <2>1, <2>2
<1>5. \A x \in Static(s) : x \in Ports(s) \/ x \in IRBs(s)
  BY DEF Ports, IRBs
<1>6. ~IsIRB(v) => i \in Ports(s)
  BY <1>2, <1>5 DEF IsIRB, WellFormedServices, IRBs
<1>7. ~IsIRB(w) => j \in Ports(s)
  BY <1>3, <1>4, <1>5 DEF IsIRB, WellFormedServices, IRBs
<1>8. IsIRB(v) <=> IsIRB(w)
  <2>1. \A x \in Ports(s) : x.endpoint # "irb0"
    BY <1>2 DEF WellFormedServices
  <2>2. QED BY <1>6, <1>7, <2>1 DEF Sub
<1>9. i = j
  <2>1. CASE IsIRB(v)
    <3>1. s \in Routers /\ i \in IRBs(s) /\ j \in IRBs(s)
      BY <1>2, <1>3, <1>4, <1>8, <2>1 DEF IsIRB, IRBs
    <3>2. QED BY <3>1 DEF WellFormedServices, On
  <2>2. CASE ~IsIRB(v)
    <3>1. i.endpoint = j.endpoint /\ i.node = j.node
      BY <1>8, <2>2 DEF Sub, On
    <3>2. QED BY <1>2, <1>6, <1>7, <1>8, <2>2, <3>1 DEF WellFormedServices
  <2>3. QED BY <2>1, <2>2
<1>10. Item(v) = Item(w)
  <2>1. \A u : Item(u) = [name |-> Item(u).name, id |-> Item(u).id, itfce |-> Item(u).itfce]
    BY DEF Item
  <2>2. Item(v).name = Item(w).name
    BY <1>2, <1>3, <1>4
  <2>3. QED BY <1>1, <1>9, <2>1, <2>2
<1>11. QED BY <1>8, <1>10

\* An item is served once its device is touched, and stays so.
LEMMA TouchedServes ==
    ASSUME NEW d, NEW d2, NEW w, Touches(d, d2, w)
    PROVE  Serves(d2, w)
  BY DEF Touches, Connects, Serves

LEMMA TouchedStillServes ==
    ASSUME WellFormedServices, NEW d, NEW d2,
           NEW v \in AllInterfaces(input), ~Item(v).itfce.dynamic,
           NEW w \in AllInterfaces(input), ~Item(w).itfce.dynamic, On(v) = On(w),
           Touches(d, d2, w), Serves(d, v)
    PROVE  Serves(d2, v)
<1>1. Complete(d2, Item(v).name)
  BY DEF Touches, Serves, Joins, Has
<1>2. \A name : Joins(name, v) => Has(d2, name, Sub(v))
  BY DEF Touches, Serves
<1>3. Configured(d2, v)
  <2>1. CASE Sub(v) = Sub(w)
    <3>1. (IsIRB(v) <=> IsIRB(w)) /\ Item(v) = Item(w)
      BY <2>1, SubsTellItemsApart
    <3>2. QED BY <2>1, <3>1 DEF Touches, Connects, Configured
  <2>2. CASE Sub(v) # Sub(w)
    BY <2>2 DEF Touches, Connects, Serves, Configured
  <2>3. QED BY <2>1, <2>2
<1>4. QED BY <1>1, <1>2, <1>3 DEF Serves

\* An item is added to the device of its node.
LEMMA ItemAdded ==
    ASSUME ServicesInv, WellFormedServices, NEW w \in work, ~Item(w).itfce.dynamic, pc = "services",
           NEW d2, Touches(GetOrCreateDevice(devices, On(w)), d2, w),
           devices' = Put(devices, On(w), d2), OverlayStep(w)
    PROVE  ServicesInv'
<1> DEFINE n == On(w)
           d == GetOrCreateDevice(devices, n)
<1>1. /\ input' = input /\ work' = work \ {w} /\ pc' = "services"
      /\ w \in AllInterfaces(input)
  BY DEF OverlayStep, ServicesInv
<1>2. \A v : Item(v)' = Item(v)
  BY <1>1 DEF Item, ServiceAt
<1>3. \A v : On(v)' = On(v) /\ IsIRB(v)' = IsIRB(v) /\ Sub(v)' = Sub(v)
  BY <1>2 DEF On, IsIRB, Sub
<1>4. \A name, v : Joins(name, v)' = Joins(name, v)
  BY <1>2, <1>3 DEF Joins
<1>5. \A e, v : Serves(e, v)' <=> Serves(e, v)
  BY <1>2, <1>3, <1>4 DEF Serves, Configured, VLANOf
<1>6. Processed' = Processed \cup {w}
  BY <1>1, <1>2 DEF Processed, AllInterfaces
<1>7. /\ \A m : m \in DOMAIN devices' <=> m \in DOMAIN devices \/ m = n
      /\ \A m \in DOMAIN devices \cup {n} : devices'[m] = IF m = n THEN d2 ELSE devices[m]
  BY DEF Put
<1>8. /\ n \in DOMAIN devices => d = devices[n]
      /\ n \notin DOMAIN devices => \A name, si : ~Has(d, name, si) /\ name \notin DOMAIN d.instances
  BY NewDeviceWhole DEF GetOrCreateDevice, GetOrCreate, Has
<1>9. \A v \in Processed' : On(v) \in DOMAIN devices' /\ Serves(devices'[On(v)], v)
  <2> SUFFICES ASSUME NEW v \in Processed' PROVE On(v) \in DOMAIN devices' /\ Serves(devices'[On(v)], v)
    OBVIOUS
  <2>1. CASE v = w
    BY <1>7, <2>1, TouchedServes
  <2>2. CASE v \in Processed /\ On(v) = n
    <3>1. n \in DOMAIN devices /\ Serves(d, v) /\ v \in AllInterfaces(input) /\ ~Item(v).itfce.dynamic
      BY <1>8, <2>2 DEF ServicesInv, Processed
    <3>2. Serves(d2, v)
      BY <1>1, <2>2, <3>1, TouchedStillServes
    <3>3. QED BY <1>7, <2>2, <3>2
  <2>3. CASE v \in Processed /\ On(v) # n
    BY <1>7, <2>3 DEF ServicesInv
  <2>4. QED BY <1>6, <2>1, <2>2, <2>3
<1>10. ASSUME NEW m \in DOMAIN devices'
       PROVE  /\ Whole(devices'[m])
              /\ \A name, si : Has(devices'[m], name, si) =>
                    \E v \in Processed' : On(v) = m /\ Joins(name, v) /\ si = Sub(v)
              /\ \A name \in DOMAIN devices'[m].instances : ~Complete(devices'[m], name) =>
                    \E v \in Processed' : On(v) = m /\ IsIRB(v) /\ name = Item(v).itfce.bridge
  <2>1. CASE m # n
    <3>1. m \in DOMAIN devices /\ devices'[m] = devices[m]
      BY <1>7, <1>10, <2>1
    <3>2. Whole(devices[m]) /\ ComesFromItems(m, devices[m])
      BY <3>1 DEF ServicesInv
    <3>3. QED BY <1>6, <3>1, <3>2 DEF ComesFromItems
  <2>2. CASE m = n
    <3>1. devices'[m] = d2 /\ Whole(d2) /\ w \in Processed' /\ On(w) = m
      BY <1>6, <1>7, <2>2 DEF Touches
    <3>2. n \in DOMAIN devices => ComesFromItems(n, d)
      BY <1>8 DEF ServicesInv
    <3>3. ASSUME NEW name, NEW si, Has(d2, name, si)
          PROVE  \E v \in Processed' : On(v) = m /\ Joins(name, v) /\ si = Sub(v)
      <4>1. Has(d, name, si) \/ (Joins(name, w) /\ si = Sub(w))
        BY <3>3 DEF Touches
      <4>2. CASE Has(d, name, si)
        BY <1>6, <1>8, <2>2, <3>2, <4>2 DEF ComesFromItems
      <4>3. QED BY <3>1, <4>1, <4>2
    <3>4. ASSUME NEW name \in DOMAIN d2.instances, ~Complete(d2, name)
          PROVE  \E v \in Processed' : On(v) = m /\ IsIRB(v) /\ name = Item(v).itfce.bridge
      <4>1. \/ name \in DOMAIN d.instances /\ ~Complete(d, name)
            \/ IsIRB(w) /\ name = Item(w).itfce.bridge
        BY <3>4 DEF Touches
      <4>2. CASE name \in DOMAIN d.instances /\ ~Complete(d, name)
        BY <1>6, <1>8, <2>2, <3>2, <4>2 DEF ComesFromItems
      <4>3. QED BY <3>1, <4>1, <4>2
    <3>5. QED BY <3>1, <3>3, <3>4
  <2>3. QED BY <2>1, <2>2
<1>11. work' \subseteq AllInterfaces(input)' /\ (pc' = "done" => work' = {})
  BY <1>1 DEF ServicesInv, AllInterfaces
<1>12. \A v \in Processed' : On(v)' \in DOMAIN devices' /\ Serves(devices[On(v)], v)'
  BY <1>3, <1>5, <1>9
<1>13. \A m \in DOMAIN devices' : Whole(devices[m])' /\ ComesFromItems(m, devices[m])'
  BY <1>2, <1>3, <1>4, <1>10 DEF ComesFromItems
<1>14. QED BY <1>11, <1>12, <1>13 DEF ServicesInv

LEMMA OverlayStarts ==
    ASSUME BuildInv, NewBuild(input), input' = input PROVE OverlayInv'
<1> SUFFICES ASSUME pc' \in {"services", "done"} PROVE ServicesInv'
  BY DEF OverlayInv
<1>1. work' = AllInterfaces(input) /\ devices' = <<>> /\ pc' = "services"
  BY DEF NewBuild
<1>2. DOMAIN <<>> = {}
  OBVIOUS
<1>3. AllInterfaces(input)' = AllInterfaces(input)
  BY DEF AllInterfaces
<1>4. Processed' = {}
  BY <1>1, <1>3 DEF Processed
<1>5. QED BY <1>1, <1>2, <1>3, <1>4 DEF ServicesInv

LEMMA OverlayInvStep == BuildInv /\ OverlayInv /\ [Next]_vars => OverlayInv'
<1> SUFFICES ASSUME BuildInv, OverlayInv, [Next]_vars, pc' \in {"services", "done"},
                    ~input'.default, WellFormedServices'
             PROVE  ServicesInv'
  BY DEF OverlayInv
<1>1. CASE Start \/ BuildAgain
  <2>1. NewBuild(input) /\ input' = input
    BY <1>1 DEF Start, BuildAgain
  <2>2. QED BY <2>1, OverlayStarts DEF OverlayInv
<1>2. input' = input
  BY DEF Next, vars, Start, BuildAgain, BuildUnderlay, BuildOverlay, ProcessLink, LinkFails, LinkPanics,
     LinksDone, PeerEdges, EdgesFail, EdgesPanic, PeerReflector, ReflectorsDone, SkipDynamic,
     BridgeInterface, RouterInterface, OverlayStep, ServiceFails, ServicesDone, End
<1>3. WellFormedServices
  BY <1>2 DEF WellFormedServices, Bridges, Routers
<1>4. ~BuildUnderlay
  BY <1>2 DEF BuildInv, GatherInv, BuildUnderlay, ProcessLink, LinkFails, LinkPanics,
     LinksDone, PeerEdges, EdgesFail, EdgesPanic, PeerReflector, ReflectorsDone
<1>5. ASSUME UNCHANGED <<input, work, devices>>, pc \in {"services", "done"}, pc' = "done" => work = {}
      PROVE  ServicesInv'
  <2>1. ServicesInv
    BY <1>2, <1>3, <1>5 DEF OverlayInv
  <2>2. \A v : Item(v)' = Item(v)
    BY <1>5 DEF Item, ServiceAt
  <2>3. \A v : On(v)' = On(v) /\ IsIRB(v)' = IsIRB(v) /\ Sub(v)' = Sub(v)
    BY <2>2 DEF On, IsIRB, Sub
  <2>4. \A name, v : Joins(name, v)' = Joins(name, v)
    BY <2>2, <2>3 DEF Joins
  <2>5. \A e, v : Serves(e, v)' <=> Serves(e, v)
    BY <2>2, <2>3, <2>4 DEF Serves, Configured, VLANOf
  <2>6. Processed' = Processed
    BY <1>5, <2>2 DEF Processed, AllInterfaces
  <2>7. \A n, e : ComesFromItems(n, e)' <=> ComesFromItems(n, e)
    BY <2>2, <2>3, <2>4, <2>6 DEF ComesFromItems
  <2>8. AllInterfaces(input)' = AllInterfaces(input)
    BY <1>5 DEF AllInterfaces
  <2>9. QED BY <1>5, <2>1, <2>3, <2>5, <2>6, <2>7, <2>8 DEF ServicesInv
<1>6. CASE UNCHANGED vars
  <2>1. pc = "done" => work = {}
    BY <1>2, <1>3, <1>6 DEF vars, OverlayInv, ServicesInv
  <2>2. QED BY <1>5, <1>6, <2>1 DEF vars
<1>7. CASE ServicesDone
  BY <1>5, <1>7 DEF ServicesDone
<1>8. CASE SkipDynamic
  <2>1. PICK w \in work : pc = "services" /\ Item(w).itfce.dynamic /\ OverlayStep(w) /\ UNCHANGED devices
    BY <1>8 DEF SkipDynamic, Turn
  <2>2. ServicesInv
    BY <1>2, <1>3, <2>1 DEF OverlayInv
  <2>3. \A v : Item(v)' = Item(v)
    BY <1>2 DEF Item, ServiceAt
  <2>4. \A v : On(v)' = On(v) /\ IsIRB(v)' = IsIRB(v) /\ Sub(v)' = Sub(v)
    BY <2>3 DEF On, IsIRB, Sub
  <2>5. \A name, v : Joins(name, v)' = Joins(name, v)
    BY <2>3, <2>4 DEF Joins
  <2>6. \A e, v : Serves(e, v)' <=> Serves(e, v)
    BY <2>3, <2>4, <2>5 DEF Serves, Configured, VLANOf
  <2>7. work' = work \ {w} /\ pc' = "services" /\ devices' = devices
    BY <2>1 DEF OverlayStep
  <2>8. AllInterfaces(input)' = AllInterfaces(input)
    BY <1>2 DEF AllInterfaces
  <2>9. Processed' = Processed
    BY <2>1, <2>3, <2>7, <2>8 DEF Processed
  <2>10. \A n, e : ComesFromItems(n, e)' <=> ComesFromItems(n, e)
    BY <2>3, <2>4, <2>5, <2>9 DEF ComesFromItems
  <2>11. QED BY <2>2, <2>4, <2>6, <2>7, <2>8, <2>9, <2>10 DEF ServicesInv
<1>9. CASE BridgeInterface \/ RouterInterface
  <2>1. PICK w \in work :
           LET d == GetOrCreateDevice(devices, On(w))
           IN  /\ pc = "services" /\ ~Item(w).itfce.dynamic /\ OverlayStep(w)
               /\ \/ w[1] = "bridge" /\ devices' = Put(devices, On(w), BridgeDevice(d, Item(w)))
                  \/ w[1] = "router" /\ devices' = Put(devices, On(w), RouterDevice(d, Item(w)))
    BY <1>9 DEF BridgeInterface, RouterInterface, Turn, On
  <2> DEFINE d == GetOrCreateDevice(devices, On(w))
  <2>2. ServicesInv
    BY <1>2, <1>3, <2>1 DEF OverlayInv
  <2>3. Whole(d)
    BY <2>2, NewDeviceWhole DEF ServicesInv, GetOrCreateDevice, GetOrCreate
  <2> HIDE DEF d
  <2>4. PICK d2 : Touches(d, d2, w) /\ devices' = Put(devices, On(w), d2)
    BY <2>1, <2>3, BridgeTouches, RouterTouches DEF d
  <2>5. QED BY <1>3, <2>1, <2>2, <2>4, ItemAdded DEF d
<1>10. QED
  BY <1>1, <1>4, <1>6, <1>7, <1>8, <1>9 DEF Next, BuildOverlay, ServiceFails, End

\* With nothing left to process, every item is served.
LEMMA DoneServes ==
    ASSUME ServicesInv, pc = "done", NEW w \in AllInterfaces(input), ~Item(w).itfce.dynamic
    PROVE  w \in Processed /\ On(w) \in DOMAIN devices /\ Serves(devices[On(w)], w)
  BY DEF ServicesInv, Processed

\* The instances a sub-interface of an item is in are those it joins.
LEMMA InstancesOfItem ==
    ASSUME ServicesInv, WellFormedServices, pc = "done",
           NEW w \in AllInterfaces(input), ~Item(w).itfce.dynamic, NEW name
    PROVE  Has(devices[On(w)], name, Sub(w)) <=> Joins(name, w)
<1>1. On(w) \in DOMAIN devices /\ Serves(devices[On(w)], w)
  BY DoneServes
<1>2. Joins(name, w) => Has(devices[On(w)], name, Sub(w))
  BY <1>1 DEF Serves
<1>3. ASSUME Has(devices[On(w)], name, Sub(w)) PROVE Joins(name, w)
  <2>1. PICK v \in Processed : On(v) = On(w) /\ Joins(name, v) /\ Sub(w) = Sub(v)
    BY <1>1, <1>3 DEF ServicesInv, ComesFromItems
  <2>2. v \in AllInterfaces(input) /\ ~Item(v).itfce.dynamic
    BY DEF Processed
  <2>3. (IsIRB(v) <=> IsIRB(w)) /\ Item(v) = Item(w)
    BY <2>1, <2>2, SubsTellItemsApart
  <2>4. QED BY <2>1, <2>3 DEF Joins
<1>4. QED BY <1>2, <1>3

LEMMA InstancesComplete ==
    ASSUME ServicesInv, WellFormedServices, pc = "done",
           NEW n \in DOMAIN devices, NEW name \in DOMAIN devices[n].instances
    PROVE  Complete(devices[n], name)
<1> SUFFICES ASSUME ~Complete(devices[n], name) PROVE FALSE
  OBVIOUS
<1>1. PICK w \in Processed : On(w) = n /\ IsIRB(w) /\ name = Item(w).itfce.bridge
  BY DEF ServicesInv, ComesFromItems
<1>2. w \in AllInterfaces(input) /\ ~Item(w).itfce.dynamic
  BY DEF Processed
<1>3. ServiceAt(w) \in Routers /\ Item(w).itfce \in IRBs(ServiceAt(w))
  BY <1>1, <1>2, ItemsAreOfServices DEF IsIRB, IRBs
<1>4. PICK b \in Bridges : b.name = name /\ \E p \in Ports(b) : p.node = n
  BY <1>1, <1>3 DEF WellFormedServices, On
<1>4a. PICK p \in Ports(b) : p.node = n
  BY <1>4
<1>5. PICK v \in AllInterfaces(input) : ServiceAt(v) = b /\ Item(v).itfce = p
  BY ServicesHaveItems DEF Ports
<1>6. ~Item(v).itfce.dynamic /\ On(v) = n
  BY <1>4a, <1>5 DEF Ports, Static, On
<1>7. Item(v).name = name
  BY <1>4, <1>5 DEF Item
<1>8. QED BY <1>5, <1>6, <1>7, DoneServes DEF Serves

LEMMA OverlayInvSuffices == OverlayInv => OverlayComplete
<1> SUFFICES ASSUME OverlayInv, pc = "done", ~input.default, WellFormedServices
             PROVE  /\ \A n \in DOMAIN devices : \A name \in DOMAIN devices[n].instances :
                          /\ InstanceOn(n, name).type # "" /\ InstanceOn(n, name).vpn # <<>>
                          /\ Range(InstanceOn(n, name).interfaces) \subseteq DOMAIN devices[n].subInterfaces
                    /\ \A s \in Bridges \cup Routers : \A p \in Ports(s) :
                          /\ {name \in DOMAIN devices[p.node].instances :
                                 <<p.endpoint, s.id>> \in Range(InstanceOn(p.node, name).interfaces)} = {s.name}
                          /\ devices[p.node].subInterfaces[<<p.endpoint, s.id>>].vlan
                                 = <<Override(p.vlan, s.id)>>
                          /\ devices[p.node].interfaces[p.endpoint].vlanTagging
                    /\ \A r \in Routers : \A i \in IRBs(r) :
                          /\ devices[i.node].subInterfaces[<<"irb0", r.id>>].ipv4 = <<AddressesIn(i, "ipv4")>>
                          /\ devices[i.node].subInterfaces[<<"irb0", r.id>>].ipv6 = <<AddressesIn(i, "ipv6")>>
                          /\ {name \in DOMAIN devices[i.node].instances :
                                 <<"irb0", r.id>> \in Range(InstanceOn(i.node, name).interfaces)} = {r.name, i.bridge}
  BY DEF OverlayComplete
<1>0. ServicesInv
  BY DEF OverlayInv
<1>1. ASSUME NEW n \in DOMAIN devices, NEW name \in DOMAIN devices[n].instances
      PROVE  /\ InstanceOn(n, name).type # "" /\ InstanceOn(n, name).vpn # <<>>
             /\ Range(InstanceOn(n, name).interfaces) \subseteq DOMAIN devices[n].subInterfaces
  <2>1. Complete(devices[n], name)
    BY <1>0, InstancesComplete
  <2>2. ASSUME NEW si \in Range(InstanceOn(n, name).interfaces) PROVE si \in DOMAIN devices[n].subInterfaces
    <3>1. Has(devices[n], name, si)
      BY DEF Has, InstanceOn
    <3>2. PICK w \in Processed : On(w) = n /\ si = Sub(w)
      BY <1>0, <3>1 DEF ServicesInv, ComesFromItems
    <3>3. QED BY <1>0, <3>2 DEF ServicesInv, Serves, Configured
  <2>3. QED BY <2>1, <2>2 DEF Complete, InstanceOn
<1>2. ASSUME NEW s \in Bridges \cup Routers, NEW p \in Ports(s)
      PROVE  /\ {name \in DOMAIN devices[p.node].instances :
                    <<p.endpoint, s.id>> \in Range(InstanceOn(p.node, name).interfaces)} = {s.name}
             /\ devices[p.node].subInterfaces[<<p.endpoint, s.id>>].vlan
                    = <<Override(p.vlan, s.id)>>
             /\ devices[p.node].interfaces[p.endpoint].vlanTagging
  <2>1. PICK w \in AllInterfaces(input) : ServiceAt(w) = s /\ Item(w).itfce = p
    BY ServicesHaveItems DEF Ports
  <2>2. Item(w).name = s.name /\ Item(w).id = s.id /\ On(w) = p.node /\ ~Item(w).itfce.dynamic
    BY <2>1 DEF Item, On, Ports, Static
  <2>3. ~IsIRB(w) /\ Sub(w) = <<p.endpoint, s.id>>
    BY <2>1, <2>2 DEF IsIRB, Sub, Ports
  <2>4. Serves(devices[p.node], w)
    BY <1>0, <2>2, DoneServes
  <2>5. \A name : Has(devices[p.node], name, <<p.endpoint, s.id>>) <=> name = s.name
    BY <1>0, <2>2, <2>3, InstancesOfItem DEF Joins
  <2>6. QED BY <2>1, <2>2, <2>3, <2>4, <2>5 DEF Serves, Configured, Tagged, VLANOf, Has, InstanceOn
<1>3. ASSUME NEW r \in Routers, NEW i \in IRBs(r)
      PROVE  /\ devices[i.node].subInterfaces[<<"irb0", r.id>>].ipv4 = <<AddressesIn(i, "ipv4")>>
             /\ devices[i.node].subInterfaces[<<"irb0", r.id>>].ipv6 = <<AddressesIn(i, "ipv6")>>
             /\ {name \in DOMAIN devices[i.node].instances :
                    <<"irb0", r.id>> \in Range(InstanceOn(i.node, name).interfaces)} = {r.name, i.bridge}
  <2>1. PICK w \in AllInterfaces(input) : w[1] = "router" /\ ServiceAt(w) = r /\ Item(w).itfce = i
    BY ServicesHaveItems DEF IRBs
  <2>2. Item(w).name = r.name /\ Item(w).id = r.id /\ On(w) = i.node /\ ~Item(w).itfce.dynamic
    BY <2>1 DEF Item, On, IRBs, Static
  <2>3. IsIRB(w) /\ Sub(w) = <<"irb0", r.id>>
    BY <2>1, <2>2 DEF IsIRB, Sub, IRBs
  <2>4. Serves(devices[i.node], w)
    BY <1>0, <2>2, DoneServes
  <2>5. \A name : Has(devices[i.node], name, <<"irb0", r.id>>) <=> name \in {r.name, i.bridge}
    BY <1>0, <2>1, <2>2, <2>3, InstancesOfItem DEF Joins
  <2>6. QED BY <2>1, <2>3, <2>4, <2>5 DEF Serves, Configured, Has, InstanceOn
<1>4. QED BY <1>1, <1>2, <1>3

\* Whatever the bridges and routers of a network, and however their
\* interfaces share nodes and ports, a finished overlay build leaves every
\* network instance complete and every interface where it belongs: no later
\* interface undoes what an earlier one configured.
THEOREM OverlaysComplete == Spec => []OverlayComplete
<1>1. Init => OverlayInv
  BY DEF Init, OverlayInv
<1>2. Spec => []OverlayInv
  BY <1>1, OverlayInvStep, BuildCorrect, PTL DEF Spec
<1>3. QED BY <1>2, OverlayInvSuffices, PTL

=============================================================================

-------------------------- MODULE MCDeviceBuilder --------------------------
(***************************************************************************)
(* Inputs of the device builder: the topology of the repository's test     *)
(* data, two edges and a core, with one deviation at a time, under designs *)
(* that mix addressing and protocols; and small overlay networks.          *)
(***************************************************************************)
EXTENDS DeviceBuilder, TLC

-----------------------------------------------------------------------------
(* Designs.  The addressing is one the CRD admits.                         *)

BaseDesign ==
    [loopback |-> "dualstack", underlay |-> "dualstack",
     protocols |-> {"EBGP", "IBGP", "BGPEVPN"}, bfd |-> {}, ibgpAS |-> TRUE, asPool |-> TRUE,
     reflectors |-> {<<"core", "ipv4">>}, vxlan |-> TRUE, ospfArea |-> "0", isisLevel |-> "L2",
     minRx |-> NotSet, loopbackPrefixes |-> {"ipv4", "ipv6"}, underlayPrefixes |-> {"ipv4", "ipv6"}]

IGPDesigns ==
    {[BaseDesign EXCEPT !.loopback = lo, !.underlay = un, !.protocols = igp, !.bfd = bfd,
                        !.isisLevel = "L1L2", !.reflectors = {}] :
        lo \in AdmittedAddressings \cup {"none"}, un \in AdmittedAddressings \cup {"none"},
        igp \in {{"OSPF"}, {"ISIS"}, {"OSPF", "ISIS", "IBGP"}}, bfd \in {{}, {"OSPF", "ISIS"}}}

BGPDesigns ==
    {[BaseDesign EXCEPT !.loopback = lo, !.underlay = un, !.protocols = ps, !.reflectors = rrs,
                        !.bfd = {"EBGP"}] :
        lo \in AdmittedAddressings \cup {"none"}, un \in AdmittedAddressings \cup {"none"},
        ps \in {{"EBGP"}, {"EBGP", "IBGP"}, {"EBGP", "IBGP", "BGPEVPN"}, {"OSPF", "IBGP"}},
        rrs \in {{}, {<<"core", "ipv4">>}, {<<"core", "ipv4">>, <<"core", "ipv6">>},
                 {<<"core", "ipv6">>, <<"edge1", "ipv6">>}, {<<"core", "routerid">>}}}

SomeDesigns ==
    {BaseDesign, [BaseDesign EXCEPT !.bfd = {"EBGP"}, !.minRx = "100"],
     [BaseDesign EXCEPT !.asPool = FALSE],
     [BaseDesign EXCEPT !.protocols = {"OSPF", "ISIS", "IBGP"}, !.bfd = {"OSPF", "ISIS"}]}

-----------------------------------------------------------------------------
(* Topologies.                                                             *)

NoOverride ==
    [bfd |-> [enabled |-> <<>>, minRx |-> <<>>], bgpBFD |-> <<>>,
     ospf |-> [area |-> <<>>, passive |-> FALSE, networkType |-> <<>>, bfd |-> <<>>],
     isis |-> [passive |-> FALSE, networkType |-> <<>>, level |-> "unknown", metric |-> 0, bfd |-> <<>>]]

LinkOf(g, n, e, m, f) ==
    NoOverride @@ [infra |-> TRUE, ends |-> <<[group |-> g, node |-> n, ep |-> e],
                                              [group |-> g, node |-> m, ep |-> f]>>]

Link1 == LinkOf("topo", "edge1", "e1", "core", "e1")
Link2 == LinkOf("topo", "edge2", "e1", "core", "e2")
Parallel == LinkOf("topo", "edge1", "e2", "core", "e3")

Overridden ==
    {[Link1 EXCEPT !.bgpBFD = <<FALSE>>], [Link1 EXCEPT !.bfd.enabled = <<FALSE>>],
     [Link1 EXCEPT !.bfd.minRx = <<"50">>],
     [Link1 EXCEPT !.ospf = [area |-> <<"1">>, passive |-> TRUE, networkType |-> <<>>, bfd |-> <<FALSE>>],
                   !.isis = [passive |-> TRUE, networkType |-> <<>>, level |-> "L1",
                             metric |-> 10, bfd |-> <<FALSE>>]]}

\* A Link of another topology: between other nodes, nodes of the same name,
\* or on an endpoint that has the same name as well.
Foreign ==
    {LinkOf("other", "x", "e1", "y", "e1"), LinkOf("other", "edge1", "e9", "edge2", "e9"),
     LinkOf("other", "edge1", "e1", "edge2", "e9")}

NodeOf(type) == [type |-> type, systemID |-> TRUE, provider |-> "srlinux", group |-> "topo"]

MCNodes == "edge1" :> NodeOf("edge") @@ "edge2" :> NodeOf("pe") @@ "core" :> NodeOf("core")

Underlay(design, nodeMap, links, notReady) ==
    [default |-> TRUE, topology |-> "topo", design |-> design, nodes |-> nodeMap, links |-> links,
     notReady |-> notReady, endpoints |-> <<>>, bridges |-> <<>>, routers |-> <<>>]

UnderlayInputs ==
    {Underlay(d, MCNodes, {Link1, Link2}, {}) : d \in IGPDesigns \cup BGPDesigns}
    \cup {Underlay(d, MCNodes, {l, Link2, Parallel, [Parallel EXCEPT !.infra = FALSE]}, {}) :
             d \in SomeDesigns, l \in Overridden \cup {Link1}}
    \cup {Underlay(d, MCNodes, {Link1, Link2, l}, {}) : d \in SomeDesigns, l \in Foreign}
    \cup {Underlay(d, nodeMap, {Link1, Link2}, {}) :
             d \in SomeDesigns,
             nodeMap \in {[MCNodes EXCEPT !["core"].type = NotSet],
                        [MCNodes EXCEPT !["edge2"].systemID = FALSE]}}
    \cup {Underlay(BaseDesign, MCNodes, {Link1, Link2}, {c}) :
             c \in {<<"core", "ipv4">>, <<"edge1", "as">>, <<"edge2", "e1", "ipv6">>}}

-----------------------------------------------------------------------------
(* Overlay networks.                                                       *)

Itfce(bridge, node, endpoint, vlan, addresses, dynamic) ==
    [bridge |-> bridge, node |-> node, endpoint |-> endpoint, vlan |-> vlan,
     addresses |-> addresses, dynamic |-> dynamic]

Port(node, vlan) == Itfce(NotSet, node, "e5", vlan, {<<"ipv4", "p4">>, <<"ipv6", "p6">>}, FALSE)
IRB(bridge, node, a) ==
    Itfce(bridge, node, NotSet, <<>>, {<<"ipv4", a>>, <<"ipv6", a>>, <<"invalid", a>>}, FALSE)

BridgeLists ==
    {<<>>,
     <<[name |-> "br1", id |-> 10, interfaces |-> <<Port("edge1", <<>>), Port("edge2", <<7>>)>>]>>,
     <<[name |-> "br1", id |-> 10, interfaces |-> <<Port("edge1", <<>>), Itfce(NotSet, NotSet, NotSet, <<>>, {}, TRUE)>>],
       [name |-> "br2", id |-> 20, interfaces |-> <<Port("edge1", <<7>>), Port("edge2", <<>>)>>]>>,
     <<[name |-> "br1", id |-> 10, interfaces |-> <<Port("edge1", <<>>), Port(NotSet, <<>>)>>]>>,
     <<[name |-> "br1", id |-> 10, interfaces |-> <<Itfce(NotSet, "edge1", "none", <<>>, {}, FALSE)>>]>>}

RouterLists ==
    {<<>>} \cup
    {<<[name |-> "rt1", id |-> id, interfaces |-> is]>> :
        id \in {10, 30},
        is \in {<<Port("edge1", <<>>)>>, <<IRB("br1", "edge1", "a1"), IRB("br2", "edge2", "a2")>>,
                <<IRB("br1", "edge1", "a1"), IRB("br2", "edge1", "a2")>>,
                <<IRB("br1", "edge1", "a1"), Port("edge1", <<9>>), Port("edge2", <<>>)>>,
                <<IRB("br3", "edge1", "a1")>>, <<IRB("br1", NotSet, "a1")>>}}
    \cup {<<[name |-> "rt1", id |-> 30, interfaces |-> <<IRB("br1", "edge1", "a1")>>],
            [name |-> "rt2", id |-> 40, interfaces |-> <<IRB("br1", "edge1", "a2")>>]>>}

OverlayInputs ==
    {[default |-> FALSE, topology |-> "topo", design |-> BaseDesign, nodes |-> MCNodes, links |-> {},
      notReady |-> {}, endpoints |-> <<"edge1", "e5">> :> "srlinux" @@ <<"edge2", "e5">> :> "sros",
      bridges |-> bs, routers |-> rs] : bs \in BridgeLists, rs \in RouterLists}

MCInputs == UnderlayInputs \cup OverlayInputs

-----------------------------------------------------------------------------
(* The design of src/pkg/devbuilder/data/3node-ipv4only.                   *)

IPv4OnlyInputs ==
    {Underlay([BaseDesign EXCEPT !.loopback = "ipv4only", !.underlay = "ipv4only", !.reflectors = rrs],
              MCNodes, {Link1, Link2}, {}) : rrs \in {{}, {<<"core", "ipv4">>}}}
=============================================================================

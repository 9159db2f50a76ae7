--------------------------- MODULE NetworkDesign ---------------------------
(***************************************************************************)
(* What the other components ask of a NetworkDesign: which addressing,     *)
(* protocols and address families it enables, and which claims follow from *)
(* it (src/apis/network/v1alpha1/networkdesign_interfaces.go).             *)
(*                                                                         *)
(* A design is a record                                                    *)
(*   loopback, underlay : an addressing, or "none" without that interface  *)
(*   protocols, bfd     : the protocols present, those with BFD enabled    *)
(*   ibgpAS, asPool     : TRUE when the AS, the AS pool, is given          *)
(*   reflectors         : the claims named as route reflectors             *)
(*   vxlan              : TRUE when the VXLAN encapsulation is present     *)
(*   ospfArea, isisLevel, minRx : one parameter of each protocol and the   *)
(*                        BFD timer of the underlay, NotSet when absent    *)
(*   loopbackPrefixes, underlayPrefixes : the address families of the      *)
(*                        prefixes                                         *)
(* Parameters that are only copied (instance names, OSPF version, ECMP     *)
(* paths, areas of ISIS) are left out.                                     *)
(*                                                                         *)
(* A claim is known by the parts of its name, and stands for what is       *)
(* assigned to it as well: two claims never get the same address or AS.    *)
(***************************************************************************)
EXTENDS Naturals, Sequences

NotSet == "unset"

\* The values the CRD admits; the predicates below know others.
AdmittedAddressings == {"dualstack", "ipv4only", "ipv6only", "ipv4unnumbered", "ipv6unnumbered"}

IsLoopbackIPv4Enabled(d) == d.loopback \in {"dualstack", "ipv4numbered"}
IsLoopbackIPv6Enabled(d) == d.loopback \in {"dualstack", "ipv6numbered"}
IsUnderlayIPv6Only(d) == d.underlay \in {"ipv6numbered", "ipv6unnumbered"}
IsUnderlayIPv4Enabled(d) == d.underlay \in {"dualstack", "ipv4numbered", "ipv4unnumbered"}
IsUnderlayIPv4Numbered(d) == d.underlay \in {"dualstack", "ipv4numbered"}
IsUnderlayIPv4UnNumbered(d) == d.underlay = "ipv4unnumbered"
IsUnderlayIPv6Enabled(d) == d.underlay \in {"dualstack", "ipv6numbered", "ipv6unnumbered"}
IsUnderlayIPv6Numbered(d) == d.underlay \in {"dualstack", "ipv6numbered"}
IsUnderlayIPv6UnNumbered(d) == d.underlay = "ipv6unnumbered"

IsISISEnabled(d) == "ISIS" \in d.protocols
IsOSPFEnabled(d) == "OSPF" \in d.protocols
IsEBGPEnabled(d) == "EBGP" \in d.protocols
IsIBGPEnabled(d) == "IBGP" \in d.protocols
IsBGPEVPNEnabled(d) == "BGPEVPN" \in d.protocols
IsVXLANEnabled(d) == d.vxlan
IsISISBFDEnabled(d) == IsISISEnabled(d) /\ "ISIS" \in d.bfd
IsOSPFBFDEnabled(d) == IsOSPFEnabled(d) /\ "OSPF" \in d.bfd
IsEBGPBFDEnabled(d) == IsEBGPEnabled(d) /\ "EBGP" \in d.bfd
IsBFDEnabled(d) == IsISISBFDEnabled(d) \/ IsOSPFBFDEnabled(d) \/ IsEBGPBFDEnabled(d)
GetIBGPAS(d) == IF IsIBGPEnabled(d) /\ d.ibgpAS THEN <<"ibgp">> ELSE <<>>

-----------------------------------------------------------------------------
(* Address families.  The overlay families are named like the protocols.   *)

OverlayFamilies(d) ==
    d.protocols \cap {"BGPEVPN", "BGPVPNv4", "BGPVPNv6", "BGPRouteTarget",
                      "BGPLabeledUnicastv4", "BGPLabeledUnicastv6"}

NoIGP(d) == ~(IsISISEnabled(d) \/ IsOSPFEnabled(d))

GetUnderlayAddressFamiliesToBeDisabled(d) ==
    {af \in {"ipv4-unicast"} :
        NoIGP(d) /\ ~(IsUnderlayIPv4Enabled(d) \/ IsLoopbackIPv4Enabled(d))}
    \cup {af \in {"ipv6-unicast"} :
        NoIGP(d) /\ ~(IsUnderlayIPv6Enabled(d) \/ ~IsLoopbackIPv6Enabled(d))}
    \cup OverlayFamilies(d)

\* The families of an IGP; BGP carries them when there is none.
GetIGPAddressFamilies(d) ==
    {af \in {"ipv4-unicast"} : IsUnderlayIPv4Enabled(d) \/ IsLoopbackIPv4Enabled(d)}
    \cup {af \in {"ipv6-unicast"} : IsUnderlayIPv6Enabled(d) \/ IsLoopbackIPv6Enabled(d)}

GetOverlayAddressFamiliesToBeDisabled(d) ==
    {af \in GetIGPAddressFamilies(d) : NoIGP(d)}

\* The families and those of them that use RFC 5549 next hops.
GetAllEnabledAddressFamilies(d) ==
    [names   |-> {af \in GetIGPAddressFamilies(d) : NoIGP(d)} \cup OverlayFamilies(d),
     rfc5549 |-> {af \in GetIGPAddressFamilies(d) :
                    NoIGP(d) /\ af = "ipv4-unicast" /\ IsUnderlayIPv6Only(d)}]

-----------------------------------------------------------------------------
(* The claims of the topology itself, made by the design controller: a     *)
(* prefix per purpose and family, and the ASes.                            *)

GetIPClaims(d) ==
    {<<"prefix", "loopback", af>> : af \in IF d.loopback = "none" THEN {} ELSE d.loopbackPrefixes}
    \cup {<<"prefix", "underlay", af>> :
            af \in IF d.underlay = "none" THEN {} ELSE d.underlayPrefixes}

GetASClaims(d) ==
    {c \in {<<"ibgp">>} : IsIBGPEnabled(d) /\ d.ibgpAS}
    \cup {c \in {<<"aspool">>} : IsEBGPEnabled(d) /\ d.asPool}

(* The claims of a Node and of a Link, made by the params controller.      *)

GetNodeIPClaims(d, n) ==
    {IF IsLoopbackIPv4Enabled(d) THEN <<n, "ipv4">> ELSE <<n, "routerid">>}
    \cup {c \in {<<n, "ipv6">>} : IsLoopbackIPv6Enabled(d)}

GetNodeASClaim(d, n) == {c \in {<<n, "as">>} : IsEBGPEnabled(d) /\ d.asPool}

\* An end of a Link is a record with the fields group, node and ep.
ReducedLinkName(l) == <<l.ends[1].node, l.ends[1].ep, l.ends[2].node, l.ends[2].ep>>

NumberedFamilies(d) ==
    {af \in {"ipv4"} : IsUnderlayIPv4Numbered(d)} \cup {af \in {"ipv6"} : IsUnderlayIPv6Numbered(d)}

GetLinkIPClaims(d, l) ==
    UNION {{Append(ReducedLinkName(l), af)}
              \cup {<<l.ends[i].node, l.ends[i].ep, af>> : i \in 1 .. 2} :
           af \in NumberedFamilies(d)}
=============================================================================

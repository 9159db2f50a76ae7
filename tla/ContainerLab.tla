---------------------------- MODULE ContainerLab ----------------------------
(***************************************************************************)
(* The import of a containerlab topology (src/pkg/clab): which Nodes and   *)
(* Links follow from the text a Topology carries.                          *)
(*                                                                         *)
(* A lab is a record                                                       *)
(*   text  : "none" when the Topology has no lab, "broken" when the text   *)
(*           is not a lab, "ok" otherwise                                  *)
(*   name  : the name of the lab, which becomes the node group             *)
(*   nodes : a function from the node's name to its labels, as far as they *)
(*           matter: exclude, and site or DefaultSite                      *)
(*   links : a set of records with exclude and the sequence ends; an end   *)
(*           is <<node, endpoint>>, or of another length when the text     *)
(*           "node:endpoint" does not parse                                *)
(* Labels that are only copied (rack, position, location, node type) and   *)
(* the provider, a fixed translation of the kind, are left out; region and *)
(* site of a node are one value.                                           *)
(***************************************************************************)
EXTENDS Naturals, Sequences

DefaultSite == "defaultSite1"

\* LoadContainerlabConfig succeeds.
IsLab(lab) == lab.text = "ok"

SiteOf(lab, n) == lab.nodes[n].site

NodeGroupNodeID(lab, n) == <<lab.name, SiteOf(lab, n), n>>

GetLabNodes(lab) ==
    {<<"Node", NodeGroupNodeID(lab, n)>> : n \in {m \in DOMAIN lab.nodes : ~lab.nodes[m].exclude}}

\* An end may be on a node that is excluded itself.
HasEndpoints(lab, l) ==
    /\ Len(l.ends) = 2
    /\ \A i \in 1 .. 2 : Len(l.ends[i]) = 2 /\ l.ends[i][1] \in DOMAIN lab.nodes

EndpointOf(lab, end) == <<NodeGroupNodeID(lab, end[1]), end[2]>>

ImportedLinks(lab) == {l \in lab.links : ~l.exclude}

\* One link without two endpoints, and no link is imported at all.
GetLabLinks(lab) ==
    {<<"Link", EndpointOf(lab, l.ends[1]), EndpointOf(lab, l.ends[2])>> :
        l \in IF \A m \in ImportedLinks(lab) : HasEndpoints(lab, m) THEN ImportedLinks(lab) ELSE {}}
=============================================================================

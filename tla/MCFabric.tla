------------------------------ MODULE MCFabric ------------------------------
(***************************************************************************)
(* A lab of two nodes, one of them excluded, with two links, one of them   *)
(* excluded; it is changed into one with a link that does not parse, into  *)
(* a text that is no lab, or is removed.  A design to which iBGP is added. *)
(***************************************************************************)
EXTENDS Fabric

LabNode == [exclude |-> FALSE, site |-> DefaultSite]
Cable(e, f) == [exclude |-> FALSE, ends |-> <<<<"a", e>>, <<"b", f>>>>]

FirstLab ==
    [text |-> "ok", name |-> "topo",
     nodes |-> [n \in {"a", "b"} |-> [LabNode EXCEPT !.exclude = (n = "b")]],
     links |-> {Cable("e1", "e1"), [Cable("e2", "e2") EXCEPT !.exclude = TRUE]}]

MCTopologySpecs ==
    <<FirstLab, [FirstLab EXCEPT !.links = @ \cup {[Cable("e3", "e3") EXCEPT !.ends[1] = <<"a">>]}],
      [FirstLab EXCEPT !.text = "broken"], [FirstLab EXCEPT !.text = "none"]>>

MCDesign ==
    [loopback |-> "dualstack", underlay |-> "none", protocols |-> {"IBGP"},
     ibgpAS |-> TRUE, asPool |-> FALSE, loopbackPrefixes |-> {"ipv4"}, underlayPrefixes |-> {}]

MCDesignSpecs == <<[MCDesign EXCEPT !.protocols = {}], MCDesign>>
=============================================================================

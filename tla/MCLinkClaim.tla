---------------------------- MODULE MCLinkClaim ----------------------------
(***************************************************************************)
(* Two Links between the same two Endpoints, named in opposite order: the  *)
(* second is written, for example, with the two ends of the cable swapped. *)
(***************************************************************************)
EXTENDS LinkClaim

CONSTANTS l1, l2, a, b

MCLinks == {l1, l2}

MCEnds == [l \in MCLinks |-> IF l = l1 THEN <<a, b>> ELSE <<b, a>>]

=============================================================================

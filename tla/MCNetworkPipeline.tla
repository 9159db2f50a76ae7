------------------------- MODULE MCNetworkPipeline -------------------------
(***************************************************************************)
(* NetworkPipeline on small instances: the configurations name the nodes   *)
(* and give the bounds.                                                    *)
(***************************************************************************)
EXTENDS NetworkPipeline

CONSTANT n1

=============================================================================

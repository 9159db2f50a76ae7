--------------------------- MODULE NetworkStatus ---------------------------
(***************************************************************************)
(* What the three Network controllers promise to a reader of the Network's *)
(* status: one object whose conditions move along the pipeline             *)
(*     references recorded -> NetworkParamReady -> NetworkDeviceReady ->   *)
(*     Ready                                                               *)
(* with no caches, copies, conflicts or owned objects.                     *)
(* NetworkPipeline implements it (property ImplementsNetworkStatus).       *)
(***************************************************************************)
EXTENDS Naturals

CONSTANTS MaxSpec, MaxDesign

VARIABLES phase, used, param, dev, ready

vars == <<phase, used, param, dev, ready>>

Inputs == [spec : 0 .. MaxSpec, design : 0 .. MaxDesign]

NotOlder(a, b) == a.spec >= b.spec /\ a.design >= b.design

Init ==
    /\ phase = "live"
    /\ used = [spec |-> 0, design |-> 0]
    /\ param = "Unknown"
    /\ dev = "Unknown"
    /\ ready = "Unknown"

Live == phase = "live"

\* New references: everything derived from the old ones is withdrawn at once.
DetectChange ==
    /\ Live
    /\ \E refs \in Inputs \ {used} :
          /\ NotOlder(refs, used)
          /\ used' = refs
    /\ param' = "Processing" /\ dev' = "Processing" /\ ready' = "Failed"
    /\ UNCHANGED phase

ParamsResult ==
    /\ Live /\ param # "Ready"
    /\ param' \in {"Ready", "Failed"}
    /\ UNCHANGED <<phase, used, dev, ready>>

\* The device configs build on ready parameters and are withdrawn only by
\* DetectChange.
DevicesResult ==
    /\ Live /\ param = "Ready" /\ dev # "Ready"
    /\ dev' \in {"Ready", "Processing"}
    /\ UNCHANGED <<phase, used, param, ready>>

\* A failure in the device stage sends the Network back to the parameters.
DevicesFail ==
    /\ Live /\ dev # "Ready"
    /\ param' = "Failed"
    /\ UNCHANGED <<phase, used, dev, ready>>

Report ==
    /\ phase # "gone"
    /\ ready' = IF param = "Ready" /\ dev = "Ready" THEN "Ready" ELSE "Failed"
    /\ UNCHANGED <<phase, used, param, dev>>

Delete ==
    /\ phase' \in {"deleting", "gone"}
    /\ phase # "gone" /\ phase' # phase
    /\ UNCHANGED <<used, param, dev, ready>>

TeardownFails ==
    /\ phase = "deleting"
    /\ param' = "Failed"
    /\ UNCHANGED <<phase, used, dev, ready>>

Next ==
    \/ DetectChange
    \/ ParamsResult
    \/ DevicesResult
    \/ DevicesFail
    \/ Report
    \/ Delete
    \/ TeardownFails

Spec == Init /\ [][Next]_vars

=============================================================================

SPECIFICATION FairSpec
CONSTANTS
    TopologySpecs <- MCTopologySpecs
    DesignSpecs <- MCDesignSpecs
    EventKinds = {"spec", "delete", "outage", "restart"}
    MaxEvents = 1
INVARIANTS
    FabricInvariant
    OwnersHoldFinalizer
PROPERTIES
    ReadyMeansApplied
    NothingNeededIsReleased
    FabricSettles
CHECK_DEADLOCK FALSE

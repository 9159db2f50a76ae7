SPECIFICATION FairSpec
CONSTANTS
    n1 = n1
    Nodes = {n1}
    MaxSpec = 2
    MaxDesign = 2
    EventKinds = {"spec", "design", "delete", "provider", "sdcio", "request", "restart"}
    MaxEvents = 1
    IsDefault = TRUE
    GitOps = FALSE
INVARIANTS
    PipelineInvariant
    TypeOK
    ReadyNeedsChildren
    DevicesNotOlderThanUsed
    ParamReadyHasClaims
    OwnershipInvariant
PROPERTIES
    UsedReferencesAdvance
    DeviceReadyUntilChange
    DeployOnlyWhenReady
    ImplementsNetworkStatus
    Converges
    DeletionCompletes
CHECK_DEADLOCK FALSE

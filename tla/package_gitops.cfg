SPECIFICATION FairPackageSpec
CONSTANTS
    n1 = n1
    Nodes = {n1}
    MaxSpec = 2
    MaxDesign = 1
    EventKinds = {"request", "restart"}
    MaxEvents = 1
    IsDefault = FALSE
    GitOps = TRUE
    Withdrawn = {2}
INVARIANTS
    PackageTypeOK
    NoOrphanNetwork
    PackageInvariant
    ReadyNeedsChildren
PROPERTIES
    ExportOnlyWhenReady
    PackagesSettle
CHECK_DEADLOCK FALSE

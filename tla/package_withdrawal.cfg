SPECIFICATION FairPackageSpec
CONSTANTS
    Nodes = {}
    MaxSpec = 2
    MaxDesign = 1
    EventKinds = {"restart"}
    MaxEvents = 1
    IsDefault = FALSE
    GitOps = TRUE
    Withdrawn = {1, 2}
PROPERTY PackagesSettle
CHECK_DEADLOCK FALSE

SPECIFICATION PackageSpec
CONSTANTS
    n1 = n1
    Nodes = {n1}
    MaxSpec = 2
    MaxDesign = 1
    EventKinds = {}
    MaxEvents = 0
    IsDefault = FALSE
    GitOps = TRUE
    Withdrawn = {}
PROPERTIES
    PackageHoldsItsConfigs
CHECK_DEADLOCK FALSE

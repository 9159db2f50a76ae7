SPECIFICATION Spec
CONSTANTS
    n1 = n1
    Nodes = {n1}
    MaxSpec = 1
    MaxDesign = 1
    EventKinds = {"sdcio"}
    MaxEvents = 1
    IsDefault = TRUE
    GitOps = FALSE
PROPERTIES
    VictoryAfterConfigs
CHECK_DEADLOCK FALSE

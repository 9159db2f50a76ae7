SPECIFICATION Spec
CONSTANTS
    n1 = n1
    Nodes = {n1}
    MaxSpec = 1
    MaxDesign = 1
    EventKinds = {}
    MaxEvents = 0
    IsDefault = TRUE
    GitOps = FALSE
PROPERTIES
    ParamReadyUntilChange
CHECK_DEADLOCK FALSE

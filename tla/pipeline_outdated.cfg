SPECIFICATION Spec
CONSTANTS
    n1 = n1
    Nodes = {n1}
    MaxSpec = 2
    MaxDesign = 1
    EventKinds = {"spec"}
    MaxEvents = 1
    IsDefault = TRUE
    GitOps = FALSE
PROPERTIES
    NoOutdatedDeploy
CHECK_DEADLOCK FALSE

SPECIFICATION Spec
CONSTANTS
    Inputs <- MCInputs
INVARIANTS
    BuilderTypeOK
    SessionsAgree
    SoundInputBuilds
    SameUpToOrder
    OverlayComplete
CHECK_DEADLOCK FALSE

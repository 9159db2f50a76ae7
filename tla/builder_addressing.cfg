SPECIFICATION Spec
CONSTANTS
    Inputs <- IPv4OnlyInputs
INVARIANTS
    AddressingIsHonoured
CHECK_DEADLOCK FALSE

SPECIFICATION Spec
CONSTANTS
    k1 = k1
    k2 = k2
    o1 = o1
    kuidapps = kuidapps
    other = other
    NoHolder = NoHolder
    Processes <- MCProcesses
    Identity <- MCIdentity
    Skew <- MCSkew
    MaxSkew = 1
    Duration = 2
    MaxTime = 4
INVARIANTS
    TypeOK
    LeaseInvariant
    LeaseExclusive
PROPERTIES
    NoEarlyTakeover

SPECIFICATION FairSpec
CONSTANTS
    l1 = l1
    l2 = l2
    a = a
    b = b
    Nobody = Nobody
    Links <- MCLinks
    Endpoints = {a, b}
    Existing = {a, b}
    Ends <- MCEnds
    EventKinds = {"delete", "touch", "remove", "request", "restart"}
    MaxEvents = 1
INVARIANTS
    TypeOK
    ClaimNeedsFinalizer
    LinkInvariant
PROPERTIES
    EndpointsChangeHands
    ReadyMeansClaimed
    LinksSettle
    DeletedLinksGo
CHECK_DEADLOCK FALSE

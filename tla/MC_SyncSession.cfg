SPECIFICATION FairSpec
CONSTANTS
    ann = ann
    ben = ben
    o1 = o1
    o2 = o2
    ObjId = {o1, o2}
    NoParent = NoParent
    Client <- MCClient
    Scripts <- MCScripts
    InitObjs <- MCObjs
    Inside = {0, 1, 2}
    SameId = FALSE
    Late = FALSE
    Roaming = {ann}
    MaxUpsets = 1
INVARIANTS
    OwnershipIsUnacked
    UnackedWriteStands
    WelcomeNotStale
    AppliedOnce
    Converged
PROPERTY OutboxDrains
CHECK_DEADLOCK FALSE

SPECIFICATION Spec
CONSTANTS
    ann = ann
    ben = ben
    o1 = o1
    o2 = o2
    ObjId = {o1, o2}
    NoParent = NoParent
    Client <- MCClient
    Scripts <- MCComments
    InitObjs <- MCObjs
    Inside = {0, 1, 2}
    SameId = TRUE
    Late = TRUE
    Roaming = {ann}
    MaxUpsets = 1
INVARIANT SettledOpApplied

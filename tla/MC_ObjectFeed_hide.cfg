SPECIFICATION Spec
CONSTANTS
    Absent = Absent
    Order <- MC_Order
    Variants <- MC_Variants
    Picks <- MC_Picks
    Open <- MC_Open
    Size <- MC_Size
    Bent <- MC_Bent
    MaxStale = 0
    Starts <- MC_Starts
    Menus <- MC_NoGestures
INVARIANT SameHandleSameMesh
CHECK_DEADLOCK FALSE

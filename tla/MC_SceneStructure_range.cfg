SPECIFICATION Spec
CONSTANTS
  Digits = 3
  Widths = 2
  MaxId = 6
  MaxEdits = 1
  Starts <- MC_ShapeStarts
INVARIANTS AnchorsInRange

CHECK_DEADLOCK FALSE

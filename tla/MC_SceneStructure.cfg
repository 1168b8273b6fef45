SPECIFICATION Spec
CONSTANTS
  Digits = 3
  Widths = 2
  MaxId = 5
  MaxEdits = 3
  Starts <- MC_Starts
INVARIANTS
  InverseRestores AnchorsStay TargetsCoverChanges NoParentLoop
  GroupKeepsStacking KeysFit
CHECK_DEADLOCK FALSE

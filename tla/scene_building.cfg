SPECIFICATION Spec
CONSTANTS
  Menus <- MCMenus
  MaxItems = 5
  MaxDepth = 3
  MAX_CONTENT_SLICES = 2
  Complex = {"r"}
  LookbackCount = 2
  AreaThreshold = 1
CHECK_DEADLOCK FALSE
INVARIANTS
  PaintsAsAsked
  HitTestAgrees
  BatchesKeepOrder

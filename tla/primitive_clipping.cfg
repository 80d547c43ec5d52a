SPECIFICATION Spec
CONSTANTS
  Scenes <- MCScenes
  Scrolls = {0, 3}
  Views <- MCViews
  GridSize = 4
  MaxGrid = 8
  MaskTile = 2
  MaskThreshold = 16
  MaxFrames = 2
  Invalid = Invalid
CHECK_DEADLOCK FALSE
INVARIANTS
  DrawnAsClipped

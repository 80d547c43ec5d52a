SPECIFICATION Spec
CONSTANTS
  Scenes <- MCScenes
  Views <- MCViews
  Values <- MCValues
  Compositors = {"Draw", "Native", "NativeWhole"}
  MaxChanges = 3
  MaxId = 30
  Repeats = FALSE
  TILE_SIZE <- MCTileSize
  Screen = 4
  Inflation = 1
CHECK_DEADLOCK FALSE
INVARIANTS
  NoPanic
  TilesAreCurrent

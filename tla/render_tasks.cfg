SPECIFICATION Spec
CONSTANTS
  NumDocs = 2
  MaxSizes <- MCMaxSizes
  Shadows <- MCShadows
  Downscales = {0}
  MaxRenders = 2
CHECK_DEADLOCK FALSE
INVARIANTS
  NoPanic
  ReadsOwnChild

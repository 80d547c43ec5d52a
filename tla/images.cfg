SPECIFICATION Spec
CONSTANTS
  auto = auto
  pixelated = pixelated
  Width = 3
  Renderings = {auto, pixelated}
  AutoRendering = auto
  QueueLimit = 1
  MaxUpdates = 3
  MaxClears = 1
  MaxFailures = 1
  MaxInFlight = 1
CHECK_DEADLOCK FALSE
INVARIANTS
  DrawnIsCurrent
  ImagesInv

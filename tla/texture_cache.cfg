SPECIFICATION Spec
CONSTANTS
  d1 = d1
  d2 = d2
  image = image
  task = task
  tile = tile
  Docs = {d1, d2}
  NoDoc = NoDoc
  Images = {image}
  Tasks = {task}
  Tiles = {tile}
  Blobs = {}
  AddSlices = 1
  DebugClears = TRUE
  Users <- MCUsers
  MaxFrames <- MCMaxFrames
  MaxVersions <- MCMaxVersions
  MaxLayers = 2
  MaxIds = 3
  MaxClears = 1
  MaxInFlight = 1
CHECK_DEADLOCK FALSE
INVARIANTS
TextureCacheInv
  RequestedStays
  ValidIsFilled
  FrameIntact

SPECIFICATION Spec
CONSTANTS
  d1 = d1
  d2 = d2
  h1 = h1
  h2 = h2
  small = small
  Docs = {d1, d2}
  Handles = {h1, h2}
  Users <- MCUsers
  Classes = {small}
  ItemsPerRow <- MCItemsPerRow
  FramesBeforeEviction = 1
  NoDoc = NoDoc
  External = External
  MaxFrames <- MCMaxFrames
  MaxVersions = 1
  MaxUses = 1
  MaxRows = 2
  MaxClears = 1
  MaxEpoch = 4
  MaxInFlight = 2
CHECK_DEADLOCK FALSE
INVARIANTS
GpuCacheInv
  ValidHandleIsUploaded
  DrawnIntact
  ClearedFramesReplaced

SPECIFICATION HandlesSpec
CONSTANTS
  v1 = v1
  v2 = v2
  Nothing = Nothing
  Panic = Panic
  Values = {v1, v2}
  EpochSpan = 8
  MaxSlots = 3
  MaxFrees = 5
  k1 = k1
  k2 = k2
  k3 = k3
  NoKey = NoKey
  Keys = {k1, k2, k3}
  MaxAge = 1
  MaxItems = 3
  MaxScenes = 4
SYMMETRY KeySymmetry
INVARIANTS
  NoSlotLost
  InternedFound
  UpdatesFit
  StoreFollows
PROPERTIES
  StoreSpec

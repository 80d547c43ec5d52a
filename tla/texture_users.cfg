SPECIFICATION TextureUsersSpec
CONSTANTS
  a = a
  b = b
  Contents = {a}
  Cleared = a
  Undefined = Undefined
  MaxTextures = 2
  MaxLayers = 2
  AddSlices = 1
  InitialSlices = 1
  DebugClears = FALSE
  MaxLists = 2
  f = f
  g = g
  i1 = i1
  i2 = i2
  Fonts = {f, g}
  Instances = {i1, i2}
  GlyphKeys = {a, b}
  FontOf <- MCFontOf
  Size <- MCSize
  NumWorkers = 2
  MaxBytesUsed = 3
  MaxFrames = 2
INVARIANTS
  RendererAgrees
  GlyphsDrawn
  GlyphFonts
  UsageBounded
PROPERTIES
  MemorySpec
  UpdatesTakeEffect
  FramesResolve

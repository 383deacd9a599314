SPECIFICATION TSpec
CONSTANTS
  NThreads = {1, 2}
  LumaHeights = {60, 144}
  SliceHeights = {16}
  Depths = {4}
  Wavelets = {0}
  MaxTransformed = 144
INVARIANT OverlapPreventsArtifacts

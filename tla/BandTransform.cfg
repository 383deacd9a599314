SPECIFICATION TSpec
CONSTANTS
  NThreads = {0, 1, 2, 3, 8}
  LumaHeights = {8, 12, 16, 24, 32, 40, 48, 64, 96, 120, 144, 240, 243, 288, 540, 720, 1080}
  SliceHeights = {4, 8, 16}
  Depths = {1, 2, 3, 4, 5}
  MaxTransformed = 243
  Wavelets = {0, 1, 2, 3}
INVARIANTS Tiling WindowsInPicture BandAsPicture LeftoversStayLow
